---- MODULE Spec2Model ----
(***************************************************************************)
(* Model of the IRCTC MCP server: the fetch adapters (new_pnr_status.py,   *)
(* new_train_status_functions.py), the tools of new_mcp.py that call them, *)
(* and the derivation functions that render a fetched record.              *)
(*                                                                         *)
(* Strings that the code only copies are kept as TLA+ strings.  Strings    *)
(* the code inspects character by character (a PNR, a station code) are    *)
(* sequences of characters.  A report is a record naming the fixed text or *)
(* the derivation that produced it, with the values it was rendered from.  *)
(***************************************************************************)
EXTENDS Integers, Sequences, FiniteSets, TLC

VARIABLES
    today,          \* date.today(), as a proleptic Gregorian ordinal
    pc,             \* position of the tool invocation: idle, await_train, done, raised
    tool,           \* name of the invoked tool
    args,           \* arguments of the invocation
    locals,         \* local variables of the handler
    result,         \* value returned by the handler (or the exception it raised)
    log,            \* adapter calls and HTTP requests of this invocation, in order
    fn_args,        \* arguments of a derivation function applied on its own
    fn_ret          \* its return value

vars == <<today, pc, tool, args, locals, result, log, fn_args, fn_ret>>

toolVars == <<today, pc, tool, args, locals, result, log>>

fnVars == <<fn_args, fn_ret>>

----------------------------------------------------------------------------
(* Python values *)

None == [kind |-> "None"]

\* a str value where the code may also hold None
Str(v) == [kind |-> "str", val |-> v]

NotCalled == [kind |-> "NotCalled"]

Max(a, b) == IF a >= b THEN a ELSE b

Rep(c, n) == [i \in 1..n |-> c]

----------------------------------------------------------------------------
(* Characters and str methods.  "7" stands for an ASCII decimal digit, "x" *)
(* for an ASCII letter, "sup2" for U+00B2 SUPERSCRIPT TWO, for which       *)
(* str.isdigit() is True although it is not a decimal digit.               *)

PnrChars == {"7", "x", "sup2"}

DecimalChars == {"7"}

IsDigitChars == {"7", "sup2"}

str_isdigit(s) == Len(s) > 0 /\ \A i \in 1..Len(s) : s[i] \in IsDigitChars

PNR_LEN == 10

\* the PNR arguments tried: every character class at lengths 0, 9, 10, 11,
\* and the mixed strings of length 10 (such as "12345abcde")
PnrArgs ==
    {Rep(c, n) : c \in PnrChars, n \in {0, PNR_LEN - 1, PNR_LEN, PNR_LEN + 1}}
    \cup {[i \in 1..PNR_LEN |-> IF 2 * i <= PNR_LEN THEN c1 ELSE c2] :
            c1 \in PnrChars, c2 \in PnrChars}

IsTenDecimalDigits(s) == Len(s) = 10 /\ \A i \in 1..Len(s) : s[i] \in DecimalChars

----------------------------------------------------------------------------
(* Dates.  A date string "dd-mm-yyyy" is the record of its three numbers;  *)
(* Garbage is a text that does not have that shape.  A date object is its  *)
(* ordinal (date.toordinal()), so that date - date is a number of days.    *)

Date(n) == [kind |-> "date", ord |-> n]

Garbage == [wf |-> FALSE, d |-> 0, m |-> 0, y |-> 0]

DateStr(d, m, y) == [wf |-> TRUE, d |-> d, m |-> m, y |-> y]

IsLeap(y) == y % 4 = 0 /\ (y % 100 # 0 \/ y % 400 = 0)

DaysInMonth(m, y) ==
    IF m = 2 THEN (IF IsLeap(y) THEN 29 ELSE 28)
    ELSE IF m \in {4, 6, 9, 11} THEN 30 ELSE 31

RECURSIVE DaysBeforeMonth(_, _)
DaysBeforeMonth(m, y) ==
    IF m <= 1 THEN 0 ELSE DaysBeforeMonth(m - 1, y) + DaysInMonth(m - 1, y)

DaysBeforeYear(y) ==
    (y - 1) * 365 + ((y - 1) \div 4) - ((y - 1) \div 100) + ((y - 1) \div 400)

ToOrdinal(d, m, y) == DaysBeforeYear(y) + DaysBeforeMonth(m, y) + d

\* datetime.strptime(s, "%d-%m-%Y").date(): None stands for the ValueError
strptime_dmy(s) ==
    IF s.wf /\ s.y \in 1..9999 /\ s.m \in 1..12 /\ s.d \in 1..DaysInMonth(s.m, s.y)
    THEN Date(ToOrdinal(s.d, s.m, s.y))
    ELSE None

----------------------------------------------------------------------------
(* What the upstream collaborators can answer *)

TrainNos == {"12618", "17606"}

BaseDate == DateStr(28, 2, 2026)

\* how many times midnight passes while the server runs
MaxTicks == 2

\* how far the source dates of the PNR records lie from the base date
MaxSpan == 3

BaseOrd == ToOrdinal(BaseDate.d, BaseDate.m, BaseDate.y)

\* every "dd-mm-yyyy" text around the base date, the days a month does not
\* have included (29-02-2026, 30-02-2026), a month no year has, and a text of
\* another shape
SourceDojs ==
    {DateStr(d, 2, BaseDate.y) : d \in (BaseDate.d - MaxSpan)..(BaseDate.d + MaxSpan)}
    \cup {DateStr(d, 3, BaseDate.y) : d \in 1..MaxSpan}
    \cup {DateStr(1, 13, BaseDate.y), Garbage}

PNRData(train_no, source_doj) == [TrainNo |-> train_no, SourceDoj |-> source_doj]

PNRDatas == {PNRData(t, s) : t \in TrainNos, s \in SourceDojs}

NotJson == [kind |-> "not_json"]

\* a JSON body of the PNR API: its status flag, whether it fits the PNRResponse
\* schema, and its data
PnrJson(status, schema_ok, data) ==
    [kind |-> "json", status |-> status, schema_ok |-> schema_ok, data |-> data]

PnrBodies ==
    {NotJson, PnrJson(FALSE, TRUE, None), PnrJson(TRUE, FALSE, None), PnrJson(TRUE, TRUE, None)}
    \cup {PnrJson(st, TRUE, d) : st \in BOOLEAN, d \in PNRDatas}

PnrUpstream(get, cookie, post, body) ==
    [get |-> get, cookie |-> cookie, post |-> post, body |-> body]

\* the behaviours of the PNR collaborator: the GET fails, the GET sets no token
\* cookie, the POST fails, the POST answers an error status, or it answers a body
PnrUpstreams ==
    {PnrUpstream("request_error", FALSE, "ok", NotJson),
     PnrUpstream("ok", FALSE, "ok", NotJson),
     PnrUpstream("ok", TRUE, "request_error", NotJson),
     PnrUpstream("ok", TRUE, "http_error", NotJson)}
    \cup {PnrUpstream("ok", TRUE, "ok", b) : b \in PnrBodies}

TrainReply(kind, schema_ok, success) ==
    [kind |-> kind, schema_ok |-> schema_ok, success |-> success]

\* the answers of the train-status collaborator to one GET
TrainReplies ==
    {TrainReply("request_error", FALSE, FALSE),
     TrainReply("http_error", FALSE, FALSE),
     TrainReply("not_json", FALSE, FALSE)}
    \cup {TrainReply("json", ok, su) : ok \in BOOLEAN, su \in BOOLEAN}

----------------------------------------------------------------------------
(* The log of one invocation *)

CallEv(what, arg) == [ev |-> "call", what |-> what, arg |-> arg]

HttpEv(what, arg) == [ev |-> "http", what |-> what, arg |-> arg]

\* the answer the collaborator gave to a request
ReplyEv(what, arg) == [ev |-> "reply", what |-> what, arg |-> arg]

\* the events of one step, each with the day it happened on
Stamp(events, now) ==
    [i \in 1..Len(events) |->
        [ev |-> events[i].ev, what |-> events[i].what, arg |-> events[i].arg, at |-> now]]

Returns(value, events) == [raised |-> "", ret |-> value, log |-> events]

Raises(exc, events) == [raised |-> exc, ret |-> None, log |-> events]

----------------------------------------------------------------------------
(* Fetch adapters *)

PNRResponse(body) == [kind |-> "PNRResponse", status |-> body.status, data |-> body.data]

\* new_pnr_status.fetch_pnr_status: the value returned or the exception raised,
\* with the requests made on the way
fetch_pnr_status(pnr_no, up) ==
    LET call == <<CallEv("fetch_pnr_status", pnr_no)>>
        get  == <<HttpEv("pnr_get", None)>>
        post == <<HttpEv("pnr_post", pnr_no)>>
        body == <<ReplyEv("pnr_post", up.body)>>
    IN  IF Len(pnr_no) # PNR_LEN \/ ~str_isdigit(pnr_no)
        THEN Returns(None, call)
        ELSE IF up.get = "request_error"
        THEN Raises("httpx.RequestError", call \o get)
        ELSE IF ~up.cookie
        THEN Raises("ValueError", call \o get)
        ELSE IF up.post = "request_error"
        THEN Raises("httpx.RequestError", call \o get \o post)
        ELSE IF up.post = "http_error"
        THEN Raises("httpx.HTTPStatusError", call \o get \o post)
        ELSE IF up.body.kind = "not_json"
        THEN Raises("json.JSONDecodeError", call \o get \o post \o body)
        ELSE IF up.body.status = FALSE
        THEN Returns(None, call \o get \o post \o body)
        ELSE IF ~up.body.schema_ok
        THEN Raises("pydantic.ValidationError", call \o get \o post \o body)
        ELSE Returns(PNRResponse(up.body), call \o get \o post \o body)

NewTrainStatusResponse(train_number, start_day, reply, now) ==
    [kind |-> "NewTrainStatusResponse", success |-> reply.success,
     train_number |-> train_number, train_start_date |-> Date(now - start_day)]

\* fetch_new_train_status with a second attempt after a failed request
fetch_new_train_status_retry(train_number, start_day, reply, now) ==
    IF reply.kind \in {"http_error", "request_error"}
    THEN Returns(None,
                 <<HttpEv("train_get", [train_number |-> train_number, start_day |-> start_day])>>)
    ELSE IF reply.kind = "not_json" \/ ~reply.schema_ok THEN Returns(None, <<>>)
    ELSE Returns(NewTrainStatusResponse(train_number, start_day, reply, now), <<>>)

\* new_train_status_functions.fetch_new_train_status, from the answer to its
\* GET on: every exception is caught and turned into None
fetch_new_train_status(train_number, start_day, reply, now) ==
    IF reply.kind = "http_error" THEN Returns(None, <<>>)
    ELSE IF reply.kind = "request_error" THEN Returns(None, <<>>)
    ELSE IF reply.kind = "not_json" \/ ~reply.schema_ok THEN Returns(None, <<>>)
    ELSE Returns(NewTrainStatusResponse(train_number, start_day, reply, now), <<>>)

\* the call and the GET with which fetch_new_train_status starts
TrainRequest(train_number, start_day) ==
    LET a == [train_number |-> train_number, start_day |-> start_day]
    IN  <<CallEv("fetch_new_train_status", a), HttpEv("train_get", a)>>

----------------------------------------------------------------------------
(* Accessors of a PNR response *)

get_train_start_date(pnr_status) ==
    IF pnr_status = None THEN None
    ELSE IF pnr_status.data = None THEN None
    ELSE strptime_dmy(pnr_status.data.SourceDoj)

get_train_number(pnr_status) ==
    IF pnr_status = None THEN None
    ELSE IF pnr_status.data = None THEN None
    ELSE Str(pnr_status.data.TrainNo)

\* calculate_start_day returning the signed difference
calculate_start_day_signed(train_source_date, now) ==
    IF train_source_date = None THEN 0
    ELSE now - train_source_date.ord

calculate_start_day(train_source_date, now) ==
    IF train_source_date = None THEN 0
    ELSE LET delta == now - train_source_date.ord IN Max(0, delta)

----------------------------------------------------------------------------
(* Tools of new_mcp.py.  A report is a sequence of parts; a part is a fixed  *)
(* text of the code or the name of the derivation with what it renders.      *)

Part(msg, values) == [msg |-> msg, values |-> values]

Text(msg) == <<Part(msg, <<>>)>>

ERR_PNR == "Error fetching PNR status. Please double check the PNR number provided."

ERR_TRAIN == "Error fetching train status. Please check the train number and start_day."

NO_TRAIN_NO == "Train number not available in PNR data."

NoArgs == [pnr_no |-> None, train_number |-> None, start_day |-> None, station_code |-> None]

NoLocals ==
    [pnr_response |-> None, train_no |-> None, train_source_date |-> None, start_day |-> None]

\* where a handler stands when it returns, raises or suspends
Outcome(at, res, loc, events) == [pc |-> at, result |-> res, locals |-> loc, log |-> events]

Raised(exc, events) == Outcome("raised", Text(exc), NoLocals, events)

PnrTools ==
    {"get_confirm_status", "get_coaches_and_berths", "get_pnr_waitlist_position",
     "get_train_no_from_pnr_no", "get_pnr_journey_overview", "get_pnr_passenger_summary",
     "get_complete_pnr_summary"}

TrainTools ==
    {"get_live_train_status", "get_train_arrival_at_station", "get_train_complete_route",
     "get_next_stations", "get_brief_train_summary"}

CompositeTools ==
    {"get_train_status_using_pnr", "get_train_arrival_using_pnr", "get_full_journey_status"}

\* the derivation each tool returns
Derivation(t) ==
    CASE t = "get_confirm_status" -> "check_confirm_status"
      [] t = "get_coaches_and_berths" -> "get_coach_and_berth"
      [] t = "get_pnr_waitlist_position" -> "get_waitlist_position"
      [] t = "get_pnr_journey_overview" -> "get_journey_overview"
      [] t = "get_pnr_passenger_summary" -> "get_passenger_summary"
      [] t = "get_complete_pnr_summary" -> "get_pnr_summary"
      [] t = "get_live_train_status" -> "get_current_train_position"
      [] t = "get_train_arrival_at_station" -> "get_expected_arrival_at_station"
      [] t = "get_train_complete_route" -> "get_train_route"
      [] t = "get_next_stations" -> "get_upcoming_stations"
      [] t = "get_brief_train_summary" -> "get_train_summary"

\* get_confirm_status .. get_complete_pnr_summary: the seven PNR tools
pnr_tool(t, pnr_no, up) ==
    LET f == fetch_pnr_status(pnr_no, up)
        response == f.ret
        loc == [NoLocals EXCEPT !.pnr_response = response]
    IN  IF f.raised # "" THEN Raised(f.raised, f.log)
        ELSE IF response = None THEN Outcome("done", Text(ERR_PNR), loc, f.log)
        ELSE IF t = "get_train_no_from_pnr_no"
        THEN LET train_no == get_train_number(response)
             IN  IF train_no = None
                 THEN Outcome("done", Text(NO_TRAIN_NO), loc, f.log)
                 ELSE Outcome("done", <<Part("Train Number", <<train_no.val>>)>>,
                              [loc EXCEPT !.train_no = train_no], f.log)
        ELSE Outcome("done", <<Part(Derivation(t), <<response>>)>>, loc, f.log)

\* get_live_train_status .. get_brief_train_summary, up to the await
train_tool(t, train_number, start_day) ==
    Outcome("await_train", <<>>, NoLocals, TrainRequest(train_number, start_day))

\* ... and from the await on
train_tool_resume(t, a, reply, now) ==
    LET f == fetch_new_train_status(a.train_number, a.start_day, reply, now)
        response == f.ret
    IN  IF response = None THEN Outcome("done", Text(ERR_TRAIN), NoLocals, f.log)
        ELSE Outcome("done", <<Part(Derivation(t), <<response>>)>>, NoLocals, f.log)

\* get_train_status_using_pnr asking for today's run whatever the source date
get_train_status_using_pnr_today(pnr_no, up, now) ==
    LET f == fetch_pnr_status(pnr_no, up)
        pnr_response == f.ret
        train_no == get_train_number(pnr_response)
        train_source_date == get_train_start_date(pnr_response)
        loc == [NoLocals EXCEPT !.pnr_response = pnr_response]
    IN  IF f.raised # "" THEN Raised(f.raised, f.log)
        ELSE IF pnr_response = None THEN Outcome("done", Text(ERR_PNR), loc, f.log)
        ELSE IF train_no = None THEN Outcome("done", Text(NO_TRAIN_NO), loc, f.log)
        ELSE Outcome("await_train", <<>>,
                     [loc EXCEPT !.train_no = train_no,
                                 !.train_source_date = train_source_date,
                                 !.start_day = 0],
                     f.log \o TrainRequest(train_no.val, 0))

\* get_train_status_using_pnr, up to the await
get_train_status_using_pnr(pnr_no, up, now) ==
    LET f == fetch_pnr_status(pnr_no, up)
        pnr_response == f.ret
        train_no == get_train_number(pnr_response)
        train_source_date == get_train_start_date(pnr_response)
        start_day == calculate_start_day(train_source_date, now)
        loc == [NoLocals EXCEPT !.pnr_response = pnr_response]
    IN  IF f.raised # "" THEN Raised(f.raised, f.log)
        ELSE IF pnr_response = None THEN Outcome("done", Text(ERR_PNR), loc, f.log)
        ELSE IF train_no = None THEN Outcome("done", Text(NO_TRAIN_NO), loc, f.log)
        ELSE Outcome("await_train", <<>>,
                     [loc EXCEPT !.train_no = train_no,
                                 !.train_source_date = train_source_date,
                                 !.start_day = start_day],
                     f.log \o TrainRequest(train_no.val, start_day))

\* ... and from the await on
get_train_status_using_pnr_resume(a, loc, reply, now) ==
    LET f == fetch_new_train_status(loc.train_no.val, loc.start_day, reply, now)
        train_response == f.ret
    IN  IF train_response = None
        THEN Outcome("done",
                     <<Part("Error fetching train status for train",
                            <<loc.train_no.val, loc.start_day>>)>>, loc, f.log)
        ELSE Outcome("done",
                     <<Part("Train Status for PNR",
                            <<a.pnr_no, loc.train_source_date, loc.start_day>>),
                       Part("get_current_train_position", <<train_response>>)>>,
                     loc, f.log)

\* get_train_arrival_using_pnr, up to the await
get_train_arrival_using_pnr(pnr_no, station_code, up, now) ==
    LET f == fetch_pnr_status(pnr_no, up)
        pnr_response == f.ret
        train_no == get_train_number(pnr_response)
        train_source_date == get_train_start_date(pnr_response)
        start_day == calculate_start_day(train_source_date, now)
        loc == [NoLocals EXCEPT !.pnr_response = pnr_response]
    IN  IF f.raised # "" THEN Raised(f.raised, f.log)
        ELSE IF pnr_response = None THEN Outcome("done", Text(ERR_PNR), loc, f.log)
        ELSE IF train_no = None THEN Outcome("done", Text(NO_TRAIN_NO), loc, f.log)
        ELSE Outcome("await_train", <<>>,
                     [loc EXCEPT !.train_no = train_no,
                                 !.train_source_date = train_source_date,
                                 !.start_day = start_day],
                     f.log \o TrainRequest(train_no.val, start_day))

\* ... and from the await on
get_train_arrival_using_pnr_resume(a, loc, reply, now) ==
    LET f == fetch_new_train_status(loc.train_no.val, loc.start_day, reply, now)
        train_response == f.ret
    IN  IF train_response = None
        THEN Outcome("done",
                     <<Part("Error fetching train status for train", <<loc.train_no.val>>)>>,
                     loc, f.log)
        ELSE Outcome("done",
                     <<Part("get_expected_arrival_at_station",
                            <<train_response, a.station_code>>)>>, loc, f.log)

UPCOMING_LIMIT == 3

\* get_full_journey_status asking for the live status of a train that has
\* not started yet as well
get_full_journey_status_always_fetch(pnr_no, up, now) ==
    LET f == fetch_pnr_status(pnr_no, up)
        pnr_response == f.ret
        res == <<Part("get_pnr_summary", <<pnr_response>>), Part("LIVE TRAIN STATUS", <<>>)>>
        train_no == get_train_number(pnr_response)
        train_source_date == get_train_start_date(pnr_response)
        start_day == calculate_start_day(train_source_date, now)
        loc == [NoLocals EXCEPT !.pnr_response = pnr_response]
        loc2 == [loc EXCEPT !.train_no = train_no,
                            !.train_source_date = train_source_date,
                            !.start_day = start_day]
    IN  IF f.raised # "" THEN Raised(f.raised, f.log)
        ELSE IF pnr_response = None THEN Outcome("done", Text(ERR_PNR), loc, f.log)
        ELSE IF train_no = None THEN Outcome("done", res \o Text(NO_TRAIN_NO), loc, f.log)
        ELSE Outcome("await_train", res, loc2,
                     f.log \o TrainRequest(train_no.val, start_day))

\* get_full_journey_status, up to the await
get_full_journey_status(pnr_no, up, now) ==
    LET f == fetch_pnr_status(pnr_no, up)
        pnr_response == f.ret
        res == <<Part("get_pnr_summary", <<pnr_response>>), Part("LIVE TRAIN STATUS", <<>>)>>
        train_no == get_train_number(pnr_response)
        train_source_date == get_train_start_date(pnr_response)
        start_day == calculate_start_day(train_source_date, now)
        loc == [NoLocals EXCEPT !.pnr_response = pnr_response]
        loc2 == [loc EXCEPT !.train_no = train_no,
                            !.train_source_date = train_source_date,
                            !.start_day = start_day]
    IN  IF f.raised # "" THEN Raised(f.raised, f.log)
        ELSE IF pnr_response = None THEN Outcome("done", Text(ERR_PNR), loc, f.log)
        ELSE IF train_no = None THEN Outcome("done", res \o Text(NO_TRAIN_NO), loc, f.log)
        ELSE IF train_source_date # None /\ train_source_date.ord > now
        THEN Outcome("done",
                     res \o <<Part("Train has not started yet",
                                   <<train_source_date, train_source_date.ord - now>>)>>,
                     loc2, f.log)
        ELSE Outcome("await_train", res, loc2,
                     f.log \o TrainRequest(train_no.val, start_day))

\* ... and from the await on; res is the report built so far
get_full_journey_status_resume(res, loc, reply, now) ==
    LET f == fetch_new_train_status(loc.train_no.val, loc.start_day, reply, now)
        train_response == f.ret
    IN  IF train_response = None
        THEN Outcome("done",
                     res \o <<Part("Unable to fetch live status for train",
                                   <<loc.train_no.val, loc.train_source_date>>)>>,
                     loc, f.log)
        ELSE Outcome("done",
                     res \o <<Part("get_current_train_position", <<train_response>>),
                              Part("get_upcoming_stations", <<train_response, UPCOMING_LIMIT>>)>>,
                     loc, f.log)

----------------------------------------------------------------------------
(* The server: one tool invocation after another *)

\* the start_day arguments a caller passes to the train tools
MaxStartDay == 2

StationArgs == {"HWH"}

Apply(o) ==
    /\ pc' = o.pc
    /\ result' = o.result
    /\ locals' = o.locals
    /\ log' = log \o Stamp(o.log, today)

InitTools ==
    /\ today = BaseOrd
    /\ pc = "idle"
    /\ tool = ""
    /\ args = NoArgs
    /\ locals = NoLocals
    /\ result = <<>>
    /\ log = <<>>

NoFn == [fn |-> ""]

InitFn ==
    /\ fn_args = NoFn
    /\ fn_ret = NotCalled

Init == InitTools /\ InitFn

CallPnrTool ==
    /\ pc = "idle"
    /\ \E t \in PnrTools, p \in PnrArgs, up \in PnrUpstreams :
          /\ tool' = t
          /\ args' = [NoArgs EXCEPT !.pnr_no = p]
          /\ Apply(pnr_tool(t, p, up))
    /\ UNCHANGED <<today, fnVars>>

CallTrainTool ==
    /\ pc = "idle"
    /\ \E t \in TrainTools, n \in TrainNos, sd \in 0..MaxStartDay :
          /\ tool' = t
          /\ args' = [NoArgs EXCEPT !.train_number = n, !.start_day = sd]
          /\ Apply(train_tool(t, n, sd))
    /\ UNCHANGED <<today, fnVars>>

\* the awaited GET is answered and the handler runs to its end
Resume(o, reply) ==
    /\ pc' = o.pc
    /\ result' = o.result
    /\ locals' = o.locals
    /\ log' = log \o Stamp(<<ReplyEv("train_get", reply)>> \o o.log, today)

ResumeTrainTool ==
    /\ pc = "await_train"
    /\ tool \in TrainTools
    /\ \E reply \in TrainReplies : Resume(train_tool_resume(tool, args, reply, today), reply)
    /\ UNCHANGED <<today, tool, args, fnVars>>

Call_get_train_status_using_pnr ==
    /\ pc = "idle"
    /\ \E p \in PnrArgs, up \in PnrUpstreams :
          /\ tool' = "get_train_status_using_pnr"
          /\ args' = [NoArgs EXCEPT !.pnr_no = p]
          /\ Apply(get_train_status_using_pnr(p, up, today))
    /\ UNCHANGED <<today, fnVars>>

Resume_get_train_status_using_pnr ==
    /\ pc = "await_train"
    /\ tool = "get_train_status_using_pnr"
    /\ \E reply \in TrainReplies :
          Resume(get_train_status_using_pnr_resume(args, locals, reply, today), reply)
    /\ UNCHANGED <<today, tool, args, fnVars>>

Call_get_train_arrival_using_pnr ==
    /\ pc = "idle"
    /\ \E p \in PnrArgs, c \in StationArgs, up \in PnrUpstreams :
          /\ tool' = "get_train_arrival_using_pnr"
          /\ args' = [NoArgs EXCEPT !.pnr_no = p, !.station_code = c]
          /\ Apply(get_train_arrival_using_pnr(p, c, up, today))
    /\ UNCHANGED <<today, fnVars>>

Resume_get_train_arrival_using_pnr ==
    /\ pc = "await_train"
    /\ tool = "get_train_arrival_using_pnr"
    /\ \E reply \in TrainReplies :
          Resume(get_train_arrival_using_pnr_resume(args, locals, reply, today), reply)
    /\ UNCHANGED <<today, tool, args, fnVars>>

Call_get_full_journey_status ==
    /\ pc = "idle"
    /\ \E p \in PnrArgs, up \in PnrUpstreams :
          /\ tool' = "get_full_journey_status"
          /\ args' = [NoArgs EXCEPT !.pnr_no = p]
          /\ Apply(get_full_journey_status(p, up, today))
    /\ UNCHANGED <<today, fnVars>>

Resume_get_full_journey_status ==
    /\ pc = "await_train"
    /\ tool = "get_full_journey_status"
    /\ \E reply \in TrainReplies :
          Resume(get_full_journey_status_resume(result, locals, reply, today), reply)
    /\ UNCHANGED <<today, tool, args, fnVars>>

\* the handler has returned or raised; nothing of the invocation is kept
Return ==
    /\ pc \in {"done", "raised"}
    /\ pc' = "idle"
    /\ tool' = ""
    /\ args' = NoArgs
    /\ locals' = NoLocals
    /\ result' = <<>>
    /\ log' = <<>>
    /\ UNCHANGED <<today, fnVars>>

\* the calendar day changes, also while a handler awaits its answer
Midnight ==
    /\ today < BaseOrd + MaxTicks
    /\ today' = today + 1
    /\ UNCHANGED <<pc, tool, args, locals, result, log, fnVars>>

Next ==
    \/ CallPnrTool
    \/ CallTrainTool
    \/ ResumeTrainTool
    \/ Call_get_train_status_using_pnr
    \/ Resume_get_train_status_using_pnr
    \/ Call_get_train_arrival_using_pnr
    \/ Resume_get_train_arrival_using_pnr
    \/ Call_get_full_journey_status
    \/ Resume_get_full_journey_status
    \/ Return
    \/ Midnight

Spec == Init /\ [][Next]_vars

----------------------------------------------------------------------------
(* Properties of the tools and the fetch adapters *)

Indices(what_ev, what) == {i \in DOMAIN log : log[i].ev = what_ev /\ log[i].what = what}

Count(what_ev, what) == Cardinality(Indices(what_ev, what))

Ended == pc \in {"done", "raised"}

TakesPnr == tool \in PnrTools \cup CompositeTools

\* the tool t called with a PNR, up to its first suspension
Invoke(t, pnr_no, up, now) ==
    CASE t \in PnrTools -> pnr_tool(t, pnr_no, up)
      [] t = "get_train_status_using_pnr" -> get_train_status_using_pnr(pnr_no, up, now)
      [] t = "get_train_arrival_using_pnr" ->
            get_train_arrival_using_pnr(pnr_no, "HWH", up, now)
      [] t = "get_full_journey_status" -> get_full_journey_status(pnr_no, up, now)

\* C1: for every PNR argument that is not exactly 10 decimal digits the PNR
\* adapter returns None and no request to the PNR collaborator is issued.
C1_MalformedPnrNeverRequested ==
    (pc # "idle" /\ TakesPnr /\ ~IsTenDecimalDigits(args.pnr_no)) =>
        /\ Count("http", "pnr_get") = 0
        /\ Count("http", "pnr_post") = 0
        /\ pc = "done"
        /\ locals.pnr_response = None

\* the PNR fetch of this invocation returned a record with a train number
PnrRecordAt(j) ==
    /\ log[j].ev = "reply"
    /\ log[j].what = "pnr_post"
    /\ log[j].arg.kind = "json"
    /\ log[j].arg.status
    /\ log[j].arg.schema_ok
    /\ log[j].arg.data # None

\* C2: in the three composite tools a train-status fetch is issued only after
\* the PNR fetch has returned a record with a train number, for that train
\* number and with start_day = calculate_start_day of the record's source
\* departure date (on the day of the call); when the PNR fetch is unavailable
\* no train-status fetch is issued.
C2_TrainFetchFollowsPnr ==
    tool \in CompositeTools =>
        /\ \A i \in Indices("call", "fetch_new_train_status") :
              \E j \in 1..(i - 1) :
                 /\ PnrRecordAt(j)
                 /\ log[i].arg.train_number = log[j].arg.data.TrainNo
                 /\ log[i].arg.start_day =
                       calculate_start_day(strptime_dmy(log[j].arg.data.SourceDoj), log[i].at)
        /\ \A i \in Indices("http", "train_get") :
              \E k \in Indices("call", "fetch_new_train_status") :
                 k < i /\ log[k].arg = log[i].arg
        /\ (pc = "raised" \/ (pc = "done" /\ locals.pnr_response = None)) =>
              /\ Count("call", "fetch_new_train_status") = 0
              /\ Count("http", "train_get") = 0

\* a composite tool has asked for the run of an earlier day
C2_Witness ==
    /\ pc = "done"
    /\ tool \in CompositeTools
    /\ \E i \in Indices("http", "train_get") : log[i].arg.start_day > 0

\* C3: every upstream failure makes the adapters return None; no failure leaves
\* an adapter as an exception, so every tool invocation ends by returning.
C3_NoFailureEscapes == pc # "raised"

TrainDerivations ==
    {"get_current_train_position", "get_expected_arrival_at_station", "get_train_route",
     "get_upcoming_stations", "get_train_summary"}

PnrDerivations ==
    {"check_confirm_status", "get_coach_and_berth", "get_waitlist_position",
     "get_journey_overview", "get_passenger_summary", "get_pnr_summary", "Train Number"}

Renders(names) == \E k \in DOMAIN result : result[k].msg \in names

\* C4: when the top-level success indicator of the upstream answer is false
\* (status of the PNR API, success of the train-status API) the adapter returns
\* None and no tool renders a report from that answer.
C4_UnsuccessfulIsUnavailable ==
    /\ \A i \in Indices("reply", "pnr_post") :
          (log[i].arg.kind = "json" /\ ~log[i].arg.status) =>
              (locals.pnr_response = None /\ ~Renders(PnrDerivations))
    /\ \A i \in Indices("reply", "train_get") :
          (log[i].arg.kind = "json" /\ ~log[i].arg.success) => ~Renders(TrainDerivations)

\* the records of the PNR API a report of this invocation is rendered from
RenderedPnrResponses ==
    {result[k].values[1] : k \in {n \in DOMAIN result : result[n].msg \in PnrDerivations \ {"Train Number"}}}

\* C5: an invocation calls each fetch adapter it needs exactly once and each
\* adapter sends each of its requests at most once (no retry after a failure);
\* a report is rendered from the answer fetched by this invocation, and nothing
\* of an invocation is kept once it has ended.
C5_EachAdapterOnce ==
    /\ Ended =>
          /\ TakesPnr =>
                /\ Count("call", "fetch_pnr_status") = 1
                /\ Count("http", "pnr_get") <= 1
                /\ Count("http", "pnr_post") <= 1
                /\ IsTenDecimalDigits(args.pnr_no) => Count("http", "pnr_get") = 1
                /\ \A r \in RenderedPnrResponses :
                      \E j \in Indices("reply", "pnr_post") : r = PNRResponse(log[j].arg)
          /\ tool \in TrainTools =>
                /\ Count("call", "fetch_new_train_status") = 1
                /\ Count("http", "train_get") = 1
                /\ Count("call", "fetch_pnr_status") = 0
          /\ tool \in CompositeTools =>
                /\ Count("call", "fetch_new_train_status") <= 1
                /\ Count("http", "train_get") = Count("call", "fetch_new_train_status")
                /\ Count("reply", "train_get") = Count("http", "train_get")
    /\ pc = "idle" => (log = <<>> /\ locals = NoLocals /\ result = <<>>)

\* a train-status fetch has failed and the invocation has ended
C5_Witness ==
    /\ pc = "done"
    /\ \E i \in Indices("reply", "train_get") : log[i].arg.kind = "request_error"

ValidPnr == Rep("7", PNR_LEN)

\* the PNR collaborator answered, and the adapter returned None
Unavailable(up) ==
    /\ fetch_pnr_status(ValidPnr, up).raised = ""
    /\ fetch_pnr_status(ValidPnr, up).ret = None

\* C6: a malformed PNR is reported as an outcome that differs from the one
\* reported when the upstream collaborator is unavailable.
C6_InvalidDiffersFromUnavailable ==
    (pc = "done" /\ TakesPnr /\ ~IsTenDecimalDigits(args.pnr_no)) =>
        \A up \in PnrUpstreams :
            Unavailable(up) => result # Invoke(tool, ValidPnr, up, today).result

----------------------------------------------------------------------------
(* The run-date derivation on its own: get_train_start_date and            *)
(* calculate_start_day applied to a PNR status, on any day                 *)

\* what fetch_pnr_status can return
PnrStatuses ==
    {None} \cup {PNRResponse(b) : b \in {x \in PnrBodies : x.kind = "json" /\ x.status /\ x.schema_ok}}

ToolsIdle ==
    /\ pc = "idle"
    /\ tool = ""
    /\ args = NoArgs
    /\ locals = NoLocals
    /\ result = <<>>
    /\ log = <<>>

Value(v) == [val |-> v]

\* an exception leaving a function in place of a value
Failure(exc) == [kind |-> "raised", exc |-> exc]

InitStartDay ==
    /\ today \in BaseOrd..(BaseOrd + MaxTicks)
    /\ ToolsIdle
    /\ fn_args \in {[fn |-> "calculate_start_day", pnr_status |-> x] : x \in PnrStatuses}
    /\ fn_ret = NotCalled

\* new_mcp.py, lines 204-205: train_source_date, then start_day
Apply_calculate_start_day ==
    /\ fn_args.fn = "calculate_start_day"
    /\ fn_ret = NotCalled
    /\ fn_ret' = Value(calculate_start_day(get_train_start_date(fn_args.pnr_status), today))
    /\ UNCHANGED <<toolVars, fn_args>>

NextStartDay == Apply_calculate_start_day

SpecStartDay == InitStartDay /\ [][NextStartDay]_vars

\* The calendar of the base year (a common year), day by day
MonthLength == <<31, 28, 31, 30, 31, 30, 31, 31, 30, 31, 30, 31>>

IsCalendarDay(s) == s.wf /\ s.m \in 1..12 /\ s.d \in 1..MonthLength[s.m]

NextDay(s) ==
    IF s.d < MonthLength[s.m] THEN DateStr(s.d + 1, s.m, s.y)
    ELSE IF s.m < 12 THEN DateStr(1, s.m + 1, s.y)
    ELSE DateStr(1, 1, s.y + 1)

RECURSIVE DaysLater(_, _)
DaysLater(s, n) == IF n = 0 THEN s ELSE DaysLater(NextDay(s), n - 1)

Horizon == 0..(2 * (MaxSpan + MaxTicks) + 2)

\* today as a calendar day
TodayDay == DaysLater(BaseDate, today - BaseOrd)

\* today - d in whole days, for a calendar day d
Elapsed(d) ==
    IF \E n \in Horizon : DaysLater(d, n) = TodayDay
    THEN CHOOSE n \in Horizon : DaysLater(d, n) = TodayDay
    ELSE 0 - (CHOOSE n \in Horizon : DaysLater(TodayDay, n) = d)

HasSourceDay(pnr_status) ==
    /\ pnr_status # None
    /\ pnr_status.data # None
    /\ IsCalendarDay(pnr_status.data.SourceDoj)

\* C7: calculate_start_day is max(0, today - d) in whole days for a source
\* departure date d, 0 when the PNR record is missing or its source date does
\* not parse, and never negative.
C7_StartDayIsElapsedDays ==
    (fn_args.fn = "calculate_start_day" /\ fn_ret # NotCalled) =>
        /\ fn_ret.val >= 0
        /\ HasSourceDay(fn_args.pnr_status) =>
              fn_ret.val = Max(0, Elapsed(fn_args.pnr_status.data.SourceDoj))
        /\ ~HasSourceDay(fn_args.pnr_status) => fn_ret.val = 0

\* the train left its source on an earlier day, in the month before today's
C7_Witness ==
    /\ fn_args.fn = "calculate_start_day"
    /\ fn_ret # NotCalled
    /\ HasSourceDay(fn_args.pnr_status)
    /\ fn_args.pnr_status.data.SourceDoj.m < TodayDay.m
    /\ fn_ret.val > 1

----------------------------------------------------------------------------
(* Derivations of new_train_status_functions.py.  A station code is a       *)
(* sequence of characters; str.upper() maps it character by character.      *)

LowerLetters == <<"a", "b", "c", "d", "e", "f", "g", "h", "i", "j", "k", "l", "m", "n", "o", "p", "q", "r", "s", "t", "u", "v", "w", "x", "y", "z">>

UpperLetters == <<"A", "B", "C", "D", "E", "F", "G", "H", "I", "J", "K", "L", "M", "N", "O", "P", "Q", "R", "S", "T", "U", "V", "W", "X", "Y", "Z">>

UpperChar(c) ==
    IF \E i \in DOMAIN LowerLetters : LowerLetters[i] = c
    THEN UpperLetters[CHOOSE i \in DOMAIN LowerLetters : LowerLetters[i] = c]
    ELSE c

LowerChar(c) ==
    IF \E i \in DOMAIN UpperLetters : UpperLetters[i] = c
    THEN LowerLetters[CHOOSE i \in DOMAIN UpperLetters : UpperLetters[i] = c]
    ELSE c

str_upper(s) == [i \in 1..Len(s) |-> UpperChar(s[i])]

str_lower(s) == [i \in 1..Len(s) |-> LowerChar(s[i])]

\* format_delay without the hours
format_delay_minutes_only(delay_minutes) ==
    IF delay_minutes = 0 THEN Part("On Time", <<>>)
    ELSE IF delay_minutes > 0 THEN Part("Delayed by mins", <<delay_minutes>>)
    ELSE Part("Early by mins", <<0 - delay_minutes>>)

format_delay(delay_minutes) ==
    IF delay_minutes = 0 THEN Part("On Time", <<>>)
    ELSE IF delay_minutes > 0
    THEN LET hours == delay_minutes \div 60
             mins == delay_minutes % 60
         IN  IF hours > 0 THEN Part("Delayed by h m", <<hours, mins>>)
             ELSE Part("Delayed by mins", <<mins>>)
    ELSE Part("Early by mins", <<0 - delay_minutes>>)

\* the line with a value, when the code prints it
Line(cond, part) == IF cond THEN <<part>> ELSE <<>>

Least(S) == CHOOSE i \in S : \A j \in S : i <= j

\* the positions (station, non-stop point) of a list that carry a code
NonStopHits(stations, code_upper) ==
    {p \in UNION {{<<i, j>> : j \in DOMAIN stations[i].non_stops} : i \in DOMAIN stations} :
        str_upper(stations[p[1]].non_stops[p[2]].station_code) = code_upper}

\* the first of them in the order of the two nested loops
FirstHit(H) ==
    CHOOSE p \in H : \A q \in H : p[1] < q[1] \/ (p[1] = q[1] /\ p[2] <= q[2])

\* the places of a list whose station has the code, whatever the case
StationHits(stations, code_upper) ==
    {i \in DOMAIN stations : str_upper(stations[i].station_code) = code_upper}

CurrentReport(data, station_code_upper) ==
    <<Part("Train is currently at/near", <<data.current_station_name, station_code_upper>>),
      Part("Status", <<data.status_as_of>>)>>
    \o Line(data.eta # "", Part("ETA", <<data.eta>>))
    \o Line(data.delay > 0, format_delay(data.delay))

UpcomingReport(station, station_code_upper) ==
    <<Part("Arrival at", <<station.station_name, station_code_upper>>)>>
    \o Line(station.sta # "", Part("Scheduled Arrival", <<station.sta>>))
    \o Line(station.eta # "", Part("Expected Arrival", <<station.eta>>))
    \o Line(station.arrival_delay # 0, format_delay(station.arrival_delay))
    \o Line(station.platform_number # 0, Part("Platform", <<station.platform_number>>))
    \o Line(station.distance_from_current_station_txt # "",
            Part("Distance", <<station.distance_from_current_station_txt>>))

PreviousReport(station, station_code_upper) ==
    <<Part("Train has already passed", <<station.station_name, station_code_upper>>)>>
    \o Line(station.sta # "", Part("Scheduled Arrival", <<station.sta>>))
    \o Line(station.eta # "", Part("Actual Arrival", <<station.eta>>))
    \o Line(station.arrival_delay # 0, format_delay(station.arrival_delay))
    \o Line(station.platform_number # 0, Part("Platform", <<station.platform_number>>))

NonStopReport(all_stations, ns, station_code_upper) ==
    LET p == FirstHit(ns)
        non_stop == all_stations[p[1]].non_stops[p[2]]
    IN  <<Part("is a non-stop station. Train does not halt here.",
               <<non_stop.station_name, station_code_upper>>)>>

NotFoundReport(station_code_upper) ==
    <<Part("not found in the train's route", <<station_code_upper>>)>>

\* the lookup searching the passed stations ahead of the upcoming ones
get_expected_arrival_passed_first(train_status, station_code) ==
    LET station_code_upper == str_upper(station_code)
        data == train_status
        up == StationHits(data.upcoming_stations, station_code_upper)
        prev == StationHits(data.previous_stations, station_code_upper)
        all_stations == data.upcoming_stations \o data.previous_stations
        ns == NonStopHits(all_stations, station_code_upper)
    IN  IF str_upper(data.current_station_code) = station_code_upper
        THEN CurrentReport(data, station_code_upper)
        ELSE IF prev # {}
        THEN PreviousReport(data.previous_stations[Least(prev)], station_code_upper)
        ELSE IF up # {}
        THEN UpcomingReport(data.upcoming_stations[Least(up)], station_code_upper)
        ELSE IF ns # {} THEN NonStopReport(all_stations, ns, station_code_upper)
        ELSE NotFoundReport(station_code_upper)

\* the lookup comparing the code as it was typed
get_expected_arrival_exact_case(train_status, station_code) ==
    LET station_code_upper == station_code
        data == train_status
        up == StationHits(data.upcoming_stations, station_code_upper)
        prev == StationHits(data.previous_stations, station_code_upper)
        all_stations == data.upcoming_stations \o data.previous_stations
        ns == NonStopHits(all_stations, station_code_upper)
    IN  IF str_upper(data.current_station_code) = station_code_upper
        THEN CurrentReport(data, station_code_upper)
        ELSE IF up # {}
        THEN UpcomingReport(data.upcoming_stations[Least(up)], station_code_upper)
        ELSE IF prev # {}
        THEN PreviousReport(data.previous_stations[Least(prev)], station_code_upper)
        ELSE IF ns # {} THEN NonStopReport(all_stations, ns, station_code_upper)
        ELSE NotFoundReport(station_code_upper)

get_expected_arrival_at_station(train_status, station_code) ==
    LET station_code_upper == str_upper(station_code)
        data == train_status
        up == StationHits(data.upcoming_stations, station_code_upper)
        prev == StationHits(data.previous_stations, station_code_upper)
        all_stations == data.upcoming_stations \o data.previous_stations
        ns == NonStopHits(all_stations, station_code_upper)
    IN  IF str_upper(data.current_station_code) = station_code_upper
        THEN CurrentReport(data, station_code_upper)
        ELSE IF up # {}
        THEN UpcomingReport(data.upcoming_stations[Least(up)], station_code_upper)
        ELSE IF prev # {}
        THEN PreviousReport(data.previous_stations[Least(prev)], station_code_upper)
        ELSE IF ns # {} THEN NonStopReport(all_stations, ns, station_code_upper)
        ELSE NotFoundReport(station_code_upper)

\* one element of all_stations: (si_no, name, code, is_current)
RouteEntry(si_no, name, code, is_current) ==
    [si_no |-> si_no, name |-> name, code |-> code, is_current |-> is_current]

\* a station's own element, followed by its non-stop points' when they are asked for
StationEntries(station, include_non_stops) ==
    <<RouteEntry(station.si_no, station.station_name, station.station_code, FALSE)>>
    \o (IF include_non_stops
        THEN [j \in DOMAIN station.non_stops |->
                RouteEntry(station.non_stops[j].si_no,
                           <<"[", station.non_stops[j].station_name, "]">>,
                           station.non_stops[j].station_code, FALSE)]
        ELSE <<>>)

RECURSIVE PreviousEntries(_, _)
PreviousEntries(stations, include_non_stops) ==
    IF stations = <<>> THEN <<>>
    ELSE StationEntries(Head(stations), include_non_stops)
         \o PreviousEntries(Tail(stations), include_non_stops)

RECURSIVE UpcomingEntries(_, _)
UpcomingEntries(stations, include_non_stops) ==
    IF stations = <<>> THEN <<>>
    ELSE (IF Head(stations).station_code # <<>>
          THEN StationEntries(Head(stations), include_non_stops)
          ELSE <<>>)
         \o UpcomingEntries(Tail(stations), include_non_stops)

\* list.sort(key=si_no): ascending, elements of equal key keep their order
SortBySiNo(all_stations) ==
    LET n == Len(all_stations)
        rank(i) == 1 + Cardinality({j \in 1..n :
                         \/ all_stations[j].si_no < all_stations[i].si_no
                         \/ all_stations[j].si_no = all_stations[i].si_no /\ j < i})
    IN  [k \in 1..n |-> all_stations[CHOOSE i \in 1..n : rank(i) = k]]

RouteToken(e) ==
    Part(IF e.is_current THEN ">>> name (code) <<<" ELSE "name (code)", <<e.name, e.code>>)

get_train_route(train_status, include_non_stops) ==
    LET data == train_status
        all_stations ==
            PreviousEntries(data.previous_stations, include_non_stops)
            \o <<RouteEntry(data.si_no, data.current_station_name,
                            data.current_station_code, TRUE)>>
            \o UpcomingEntries(data.upcoming_stations, include_non_stops)
        sorted == SortBySiNo(all_stations)
    IN  IF data.previous_stations = <<>> /\ data.upcoming_stations = <<>>
        THEN Text("No route information available")
        ELSE [k \in DOMAIN sorted |-> RouteToken(sorted[k])]

\* the lines of one listed station, count stations having been listed before it
UpcomingStationLines(station, count) ==
    <<Part("N. name (code)", <<count + 1, station.station_name, station.station_code>>)>>
    \o (IF station.sta # "" /\ station.eta # ""
        THEN <<Part("Scheduled | Expected", <<station.sta, station.eta>>)>>
        ELSE Line(station.sta # "", Part("Scheduled", <<station.sta>>)))
    \o Line(station.arrival_delay # 0, format_delay(station.arrival_delay))
    \o Line(station.platform_number # 0, Part("Platform", <<station.platform_number>>))
    \o Line(station.distance_from_current_station_txt # "",
            Part("", <<station.distance_from_current_station_txt>>))
    \o Line(station.halt > 0, Part("Halt min", <<station.halt>>))

\* the loop that lists placeholders too
RECURSIVE UpcomingLoopAll(_, _, _)
UpcomingLoopAll(stations, count, limit) ==
    IF stations = <<>> THEN [lines |-> <<>>, count |-> count]
    ELSE IF count >= limit THEN [lines |-> <<>>, count |-> count]
    ELSE LET rest == UpcomingLoopAll(Tail(stations), count + 1, limit)
         IN  [lines |-> UpcomingStationLines(Head(stations), count) \o rest.lines,
              count |-> rest.count]

\* the loop over upcoming_stations: the lines it adds and the final count
RECURSIVE UpcomingLoop(_, _, _)
UpcomingLoop(stations, count, limit) ==
    IF stations = <<>> THEN [lines |-> <<>>, count |-> count]
    ELSE IF Head(stations).station_code = <<>> THEN UpcomingLoop(Tail(stations), count, limit)
    ELSE IF count >= limit THEN [lines |-> <<>>, count |-> count]
    ELSE LET rest == UpcomingLoop(Tail(stations), count + 1, limit)
         IN  [lines |-> UpcomingStationLines(Head(stations), count) \o rest.lines,
              count |-> rest.count]

get_upcoming_stations(train_status, limit) ==
    LET data == train_status
        loop == UpcomingLoop(data.upcoming_stations, 0, limit)
        remaining == Len(SelectSeq(data.upcoming_stations,
                                   LAMBDA st : st.station_code # <<>>)) - loop.count
    IN  IF data.upcoming_stations = <<>>
        THEN Text("No upcoming stations available")
        ELSE <<Part("Upcoming Stations for", <<data.train_name, data.train_number>>)>>
             \o loop.lines
             \o Line(remaining > 0, Part("... and more stations", <<remaining>>))

\* hours and minutes by division that rounds towards zero
get_delay_hours_minutes_truncated(delay) ==
    LET hours == IF delay < 0 THEN 0 - ((0 - delay) \div 60) ELSE delay \div 60
    IN  <<hours, delay - 60 * hours>>

\* NewTrainStatusResponse.get_delay_hours_minutes: // and % round to the floor
get_delay_hours_minutes(delay) ==
    LET hours == delay \div 60
        minutes == delay % 60
    IN  <<hours, minutes>>

\* a float that is the quotient of two integers
Ratio(num, den) == [num |-> num, den |-> den]

\* the percentage with no guard on the total
get_progress_percentage_unguarded(distance_from_source, total_distance) ==
    Ratio(distance_from_source * 100, total_distance)

\* NewTrainStatusResponse.get_progress_percentage
get_progress_percentage(distance_from_source, total_distance) ==
    IF total_distance = 0 THEN Ratio(0, 1)
    ELSE Ratio(distance_from_source * 100, total_distance)

----------------------------------------------------------------------------
(* status_decoders.py and the passenger reports of new_pnr_status.py; a str
   is the sequence of its characters *)

\* str.strip(): the text without the blanks at its ends
RECURSIVE str_strip(_)
str_strip(s) ==
    IF s = <<>> THEN s
    ELSE IF Head(s) = " " THEN str_strip(Tail(s))
    ELSE IF s[Len(s)] = " " THEN str_strip(SubSeq(s, 1, Len(s) - 1))
    ELSE s

str_startswith(s, prefix) ==
    Len(s) >= Len(prefix) /\ SubSeq(s, 1, Len(prefix)) = prefix

\* str.split(sep) for a separator of one character
RECURSIVE str_split(_, _)
str_split(s, sep) ==
    IF \E i \in DOMAIN s : s[i] = sep
    THEN LET i == CHOOSE k \in DOMAIN s : s[k] = sep /\ \A j \in 1..(k - 1) : s[j] # sep
         IN  <<SubSeq(s, 1, i - 1)>> \o str_split(SubSeq(s, i + 1, Len(s)), sep)
    ELSE <<s>>

STATUS_MAP ==
    {<<<<"C", "N", "F">>, "Confirmed">>,
     <<<<"R", "A", "C">>, "Reservation Against Cancellation">>,
     <<<<"W", "L">>, "Waitlist">>,
     <<<<"C", "A", "N">>, "Cancelled">>,
     <<<<"N", "O", "S", "B">>, "No Seat Berth (Child below 12)">>,
     <<<<"R", "E", "L">>, "Released">>,
     <<<<"N", "R">>, "Nor Reported">>,
     <<<<"G", "N", "W", "L">>, "General Waitlist">>,
     <<<<"R", "L", "W", "L">>, "Remote Location Waitlist">>,
     <<<<"P", "Q", "W", "L">>, "Pooled Quota Waitlist">>,
     <<<<"T", "Q", "W", "L">>, "Tatkal Waitlist">>,
     <<<<"R", "S", "W", "L">>, "Roadside Station Waitlist">>,
     <<<<"R", "Q", "W", "L">>, "Request Waitlist">>,
     <<<<"C", "K", "W", "L">>, "Tatkal Waitlist (Old Code)">>}

BERTH_MAP ==
    {<<<<"L", "B">>, "Lower Berth">>,
     <<<<"M", "B">>, "Middle Berth">>,
     <<<<"U", "B">>, "Upper Berth">>,
     <<<<"S", "L">>, "Side Lower">>,
     <<<<"S", "U">>, "Side Upper">>,
     <<<<"S", "M">>, "Side Middle">>,
     <<<<"W", "S">>, "Window Side">>,
     <<<<"M", "S">>, "Middle Seat">>,
     <<<<"A", "S">>, "Aisle Seat">>}

\* dict.get(code, default)
MapGet(map, code, default) ==
    IF \E e \in map : e[1] = code
    THEN Part((CHOOSE e \in map : e[1] = code)[2], <<>>)
    ELSE default

decode_ticket_status(status_code) ==
    IF status_code = <<>> THEN Part("Unknown Status", <<>>)
    ELSE LET code == str_upper(str_strip(status_code))
         IN  MapGet(STATUS_MAP, code, Part("Unknown Booking Status Code - ()", <<code>>))

decode_berth(berth_code) ==
    IF berth_code = <<>> THEN Part(" ", <<>>)
    ELSE LET code == str_upper(str_strip(berth_code))
         IN  MapGet(BERTH_MAP, code, Part("Unknown Birth Code - ", <<code>>))

\* the test of the legacy reports: the status is CNF or RAC itself
is_confirmed_or_rac_exact(status) ==
    status \in {<<"C", "N", "F">>, <<"R", "A", "C">>}

is_confirmed_or_rac(status) ==
    LET status_upper == str_strip(str_upper(status))
    IN  str_startswith(status_upper, <<"C", "N", "F">>) \/ str_startswith(status_upper, <<"R", "A", "C">>)

\* one line of a passenger report
PassengerLine(p, text) == Part("Passenger-", <<p.Number, text>>)

\* the report of the legacy checkConfirmStatus: the decoded CurrentStatus
check_confirm_status_decoded(pnr_status) ==
    IF pnr_status = None THEN Text("PNR data not available.")
    ELSE IF pnr_status.data = None THEN Text("PNR data not available.")
    ELSE LET passengers == pnr_status.data.PassengerStatus
         IN  IF passengers = <<>> THEN Text("No passenger information available.")
             ELSE [i \in DOMAIN passengers |->
                      PassengerLine(passengers[i],
                                    decode_ticket_status(passengers[i].CurrentStatus))]

check_confirm_status(pnr_status) ==
    IF pnr_status = None THEN Text("PNR data not available.")
    ELSE IF pnr_status.data = None THEN Text("PNR data not available.")
    ELSE LET passengers == pnr_status.data.PassengerStatus
         IN  IF passengers = <<>> THEN Text("No passenger information available.")
             ELSE [i \in DOMAIN passengers |->
                      PassengerLine(passengers[i], Part("", <<passengers[i].CurrentStatusNew>>))]

CoachAndBerth(p) ==
    IF is_confirmed_or_rac(p.CurrentStatus)
    THEN LET present == p.CurrentBerthCode # None /\ p.CurrentBerthCode # Str(<<>>)
         IN  IF present
             THEN Part("Coach: , Berth:  ()",
                       <<p.CurrentCoachId, p.CurrentBerthNo, decode_berth(p.CurrentBerthCode.val)>>)
             ELSE Part("Coach: , Berth: ", <<p.CurrentCoachId, p.CurrentBerthNo>>)
    ELSE Part("Not Confirmed", <<>>)

get_coach_and_berth(pnr_status) ==
    IF pnr_status = None THEN Text("PNR data not available.")
    ELSE IF pnr_status.data = None THEN Text("PNR data not available.")
    ELSE LET passengers == pnr_status.data.PassengerStatus
         IN  IF passengers = <<>> THEN Text("No passenger information available.")
             ELSE [i \in DOMAIN passengers |->
                      PassengerLine(passengers[i], CoachAndBerth(passengers[i]))]

\* the position with a fixed marker for every text that does not split in two
WaitlistPosition_marker(p) ==
    IF is_confirmed_or_rac(p.CurrentStatus) THEN Part("Already Confirmed/RAC", <<>>)
    ELSE LET booking_parts == IF p.BookingStatusNew # <<>>
                              THEN str_split(p.BookingStatusNew, "/") ELSE <<>>
         IN  IF Len(booking_parts) >= 2
             THEN Part("Position  in  ()",
                       <<booking_parts[2], decode_ticket_status(booking_parts[1]),
                         booking_parts[1]>>)
             ELSE Part("Unknown", <<>>)

WaitlistPosition(p) ==
    IF is_confirmed_or_rac(p.CurrentStatus) THEN Part("Already Confirmed/RAC", <<>>)
    ELSE LET booking_parts == IF p.BookingStatusNew # <<>>
                              THEN str_split(p.BookingStatusNew, "/") ELSE <<>>
         IN  IF Len(booking_parts) >= 2
             THEN LET status_type == booking_parts[1]
                      position_num == booking_parts[2]
                  IN  Part("Position  in  ()",
                           <<position_num, decode_ticket_status(status_type), status_type>>)
             ELSE IF p.BookingStatusNew # <<>> THEN Part("", <<p.BookingStatusNew>>)
             ELSE Part("Unknown", <<>>)

get_waitlist_position(pnr_status) ==
    IF pnr_status = None THEN Text("PNR data not available.")
    ELSE IF pnr_status.data = None THEN Text("PNR data not available.")
    ELSE LET passengers == pnr_status.data.PassengerStatus
         IN  IF passengers = <<>> THEN Text("No passenger information available.")
             ELSE [i \in DOMAIN passengers |->
                      PassengerLine(passengers[i], WaitlistPosition(passengers[i]))]

----------------------------------------------------------------------------
(* The arrival lookup on its own *)

\* how many stations the previous and the upcoming list hold together
MaxStations == 2

KB == <<"K", "B">>

ZZ == <<"Z", "Z">>

\* codes of listed stations, in upper, lower and mixed case
StationCodes == {KB, <<"k", "b">>, <<"B", "k">>}

\* codes of non-stop points
NonStopCodes == {KB, <<"b", "K">>, <<"z", "Z">>}

CurrentCodes == {KB, <<"b", "k">>, ZZ}

\* the codes asked for; "" matches a placeholder
QueryCodes == {KB, <<"k", "B">>, <<"b", "k">>, <<"z", "z">>, <<>>}

NonStopStation(si_no, code, name) ==
    [si_no |-> si_no, station_code |-> code, station_name |-> name]

\* the station at place i of a list, with the fields the reports read
Station(list, i, si_no, code, non_stops) ==
    [si_no |-> si_no, station_code |-> code, station_name |-> <<list, i>>,
     sta |-> "10:00", eta |-> IF i = 1 THEN "10:05" ELSE "",
     arrival_delay |-> 5 * (i - 1), platform_number |-> i - 1,
     distance_from_current_station_txt |-> IF i = 1 THEN "12 km ahead" ELSE "",
     halt |-> 2 * (i - 1), non_stops |-> non_stops]

TrainStatusData(code, si_no, upcoming, previous) ==
    [train_number |-> "17606", train_name |-> "Bhagat Ki Kothi - Kacheguda Express",
     current_station_code |-> code, current_station_name |-> <<"current", 0>>,
     si_no |-> si_no, status_as_of |-> "As of 2 mins ago", eta |-> "09:58", delay |-> 67,
     upcoming_stations |-> upcoming, previous_stations |-> previous]

\* a station's code with its non-stop points (none, or one)
ArrivalChoices(codes) ==
    codes \X ({<<>>} \cup {<<NonStopStation(0, c, <<"non-stop", c>>)>> : c \in NonStopCodes})

ArrivalList(list, n, codes) ==
    {[i \in 1..n |-> Station(list, i, i, f[i][1], f[i][2])] : f \in [1..n -> ArrivalChoices(codes)]}

Splits == {p \in (0..MaxStations) \X (0..MaxStations) : p[1] + p[2] <= MaxStations}

InitArrival ==
    /\ today = BaseOrd
    /\ ToolsIdle
    /\ \E p \in Splits, c \in CurrentCodes, q \in QueryCodes :
          \E u \in ArrivalList("upcoming", p[1], StationCodes \cup {<<>>}),
             v \in ArrivalList("previous", p[2], StationCodes) :
              fn_args = [fn |-> "get_expected_arrival_at_station",
                         train_status |-> TrainStatusData(c, 0, u, v), station_code |-> q]
    /\ fn_ret = NotCalled

\* data = train_status.data of a train_status that is None: AttributeError
Apply_get_expected_arrival_at_station ==
    /\ fn_args.fn = "get_expected_arrival_at_station"
    /\ fn_ret = NotCalled
    /\ fn_ret' = IF fn_args.train_status = None THEN Failure("AttributeError")
                 ELSE Value(get_expected_arrival_at_station(fn_args.train_status,
                                                            fn_args.station_code))
    /\ UNCHANGED <<toolVars, fn_args>>

NextArrival == Apply_get_expected_arrival_at_station

SpecArrival == InitArrival /\ [][NextArrival]_vars

ArrivalDone == fn_args.fn = "get_expected_arrival_at_station" /\ fn_ret # NotCalled

\* the queried code is the code of a station of the list, whatever the case
Listed(stations, q) ==
    \E i \in DOMAIN stations : str_upper(stations[i].station_code) = str_upper(q)

\* ... or of a non-stop point attached to one of its stations
ListedNonStop(stations, q) ==
    \E i \in DOMAIN stations : \E j \in DOMAIN stations[i].non_stops :
        str_upper(stations[i].non_stops[j].station_code) = str_upper(q)

IsCurrent(ts, q) == str_upper(ts.current_station_code) = str_upper(q)

\* the kind of report the lookup order asks for
ExpectedArrivalKind(ts, q) ==
    IF IsCurrent(ts, q) THEN "Train is currently at/near"
    ELSE IF Listed(ts.upcoming_stations, q) THEN "Arrival at"
    ELSE IF Listed(ts.previous_stations, q) THEN "Train has already passed"
    ELSE IF ListedNonStop(ts.upcoming_stations, q) \/ ListedNonStop(ts.previous_stations, q)
    THEN "is a non-stop station. Train does not halt here."
    ELSE "not found in the train's route"

\* C8: the lookup reports the first match in the order current station,
\* upcoming stations, passed stations, non-stop points; an upcoming station
\* that is also a non-stop point elsewhere gets the upcoming report, a code
\* that is only a non-stop point gets the non-stop message, and 'not found'
\* (naming the code) is the result exactly when nothing matches.
C8_ArrivalSearchOrder ==
    ArrivalDone =>
        LET ts == fn_args.train_status
            q == fn_args.station_code
            head == fn_ret.val[1]
        IN  /\ head.msg = ExpectedArrivalKind(ts, q)
            /\ head.msg = "Arrival at" =>
                  \E i \in DOMAIN ts.upcoming_stations :
                     /\ head.values[1] = ts.upcoming_stations[i].station_name
                     /\ str_upper(ts.upcoming_stations[i].station_code) = str_upper(q)
                     /\ \A j \in 1..(i - 1) :
                           str_upper(ts.upcoming_stations[j].station_code) # str_upper(q)
            /\ head.msg = "Train has already passed" =>
                  \E i \in DOMAIN ts.previous_stations :
                     /\ head.values[1] = ts.previous_stations[i].station_name
                     /\ str_upper(ts.previous_stations[i].station_code) = str_upper(q)
                     /\ \A j \in 1..(i - 1) :
                           str_upper(ts.previous_stations[j].station_code) # str_upper(q)
            /\ (head.msg = "not found in the train's route") <=>
                  ~(\/ IsCurrent(ts, q)
                    \/ Listed(ts.upcoming_stations, q)
                    \/ Listed(ts.previous_stations, q)
                    \/ ListedNonStop(ts.upcoming_stations, q)
                    \/ ListedNonStop(ts.previous_stations, q))
            /\ head.msg = "not found in the train's route" => head.values = <<str_upper(q)>>

\* the code is an upcoming station and a non-stop point under a passed one
C8_Witness ==
    /\ ArrivalDone
    /\ fn_ret.val[1].msg = "Arrival at"
    /\ ListedNonStop(fn_args.train_status.previous_stations, fn_args.station_code)
    /\ Listed(fn_args.train_status.previous_stations, fn_args.station_code)

\* every spelling of a code in upper and lower case letters
CaseVariants(code) ==
    {v \in [DOMAIN code -> UNION {{UpperChar(code[i]), LowerChar(code[i])} : i \in DOMAIN code}] :
        \A i \in DOMAIN code : v[i] \in {UpperChar(code[i]), LowerChar(code[i])}}

\* the stations with their codes, and their non-stop points' codes, respelled by f
Respell(stations, f(_)) ==
    [i \in DOMAIN stations |->
        [stations[i] EXCEPT
            !.station_code = f(@),
            !.non_stops = [j \in DOMAIN @ |-> [@[j] EXCEPT !.station_code = f(@)]]]]

\* the train status with every stored code respelled by f
RespellStored(ts, f(_)) ==
    [ts EXCEPT !.current_station_code = f(@),
               !.upcoming_stations = Respell(@, f),
               !.previous_stations = Respell(@, f)]

\* C9: the lookup gives the same report for a code and for every upper-case
\* or lower-case spelling of it, and the same report whether the stored
\* codes are spelled as received, in upper case or in lower case.
C9_LookupIgnoresCase ==
    ArrivalDone =>
        LET ts == fn_args.train_status
        IN  \A v \in CaseVariants(fn_args.station_code) :
                /\ get_expected_arrival_at_station(ts, v) = fn_ret.val
                /\ get_expected_arrival_at_station(RespellStored(ts, str_upper), v) = fn_ret.val
                /\ get_expected_arrival_at_station(RespellStored(ts, str_lower), v) = fn_ret.val

\* a lower-case query found a station stored in mixed case
C9_Witness ==
    /\ ArrivalDone
    /\ fn_args.station_code = <<"b", "k">>
    /\ fn_ret.val[1].msg = "Arrival at"
    /\ fn_args.train_status.upcoming_stations[1].station_code = <<"B", "k">>

----------------------------------------------------------------------------
(* The route on its own *)

\* the largest route sequence index
MaxSi == 2

\* a station's index, its code ("" on a placeholder) and its non-stop points
RouteList(list, n) ==
    {[i \in 1..n |-> Station(list, i, f[i][1], f[i][2],
                             IF f[i][3] = 0 THEN <<>>
                             ELSE <<NonStopStation(f[i][3], ZZ, <<"non-stop", list, i>>)>>)] :
        f \in [1..n -> (1..MaxSi) \X {KB, <<>>} \X {0, 1, MaxSi}]}

InitRoute ==
    /\ today = BaseOrd
    /\ ToolsIdle
    /\ \E p \in Splits, si \in 1..MaxSi, b \in BOOLEAN :
          \E u \in RouteList("upcoming", p[1]), v \in RouteList("previous", p[2]) :
              fn_args = [fn |-> "get_train_route",
                         train_status |-> TrainStatusData(KB, si, u, v),
                         include_non_stops |-> b]
    /\ fn_ret = NotCalled

\* data = train_status.data of a train_status that is None: AttributeError
Apply_get_train_route ==
    /\ fn_args.fn = "get_train_route"
    /\ fn_ret = NotCalled
    /\ fn_ret' = IF fn_args.train_status = None THEN Failure("AttributeError")
                 ELSE Value(get_train_route(fn_args.train_status, fn_args.include_non_stops))
    /\ UNCHANGED <<toolVars, fn_args>>

NextRoute == Apply_get_train_route

SpecRoute == InitRoute /\ [][NextRoute]_vars

RouteDone == fn_args.fn = "get_train_route" /\ fn_ret # NotCalled

\* what the chain has to show, each with its index: the passed stations, the
\* current station, the upcoming stations that carry a code and, when they
\* are asked for, the non-stop points of the passed and the upcoming stations
NonStopTokens(stations) ==
    {[si_no |-> stations[i].non_stops[j].si_no,
      token |-> Part("name (code)", <<<<"[", stations[i].non_stops[j].station_name, "]">>,
                                     stations[i].non_stops[j].station_code>>)] :
        <<i, j>> \in UNION {{<<i, j>> : j \in DOMAIN stations[i].non_stops} : i \in DOMAIN stations}}

StationTokens(stations) ==
    {[si_no |-> stations[i].si_no,
      token |-> Part("name (code)", <<stations[i].station_name, stations[i].station_code>>)] :
        i \in DOMAIN stations}

ChainTokens(ts, include_non_stops) ==
    StationTokens(ts.previous_stations)
    \cup {[si_no |-> ts.si_no,
           token |-> Part(">>> name (code) <<<",
                          <<ts.current_station_name, ts.current_station_code>>)]}
    \cup {t \in StationTokens(ts.upcoming_stations) : t.token.values[2] # <<>>}
    \cup (IF include_non_stops
          THEN NonStopTokens(ts.previous_stations) \cup NonStopTokens(ts.upcoming_stations)
          ELSE {})

\* the chain shows exactly the tokens, each once, by ascending index
IsChainOf(chain, tokens) ==
    /\ Len(chain) = Cardinality(tokens)
    /\ \A k \in DOMAIN chain : \E t \in tokens : t.token = chain[k]
    /\ \A k, m \in DOMAIN chain : k # m => chain[k] # chain[m]
    /\ \A k, m \in DOMAIN chain : \A t, u \in tokens :
          (k < m /\ t.token = chain[k] /\ u.token = chain[m]) => t.si_no <= u.si_no

\* the train status lists a station, passed or upcoming
HasRouteInformation(ts) == ts.previous_stations # <<>> \/ ts.upcoming_stations # <<>>

\* C10: for a train status that lists stations, the route is one chain of
\* the passed stations, the current station and the upcoming stations by
\* ascending si_no, without the upcoming entries that carry no code; non-stop
\* points are in the chain only when include_non_stops is set, and then each
\* of them at the place of its index.
C10_RouteIsOrderedChain ==
    (RouteDone /\ HasRouteInformation(fn_args.train_status)) =>
        IsChainOf(fn_ret.val, ChainTokens(fn_args.train_status, fn_args.include_non_stops))

\* the orders in which a raw list can arrive
Reorderings(stations) ==
    {[i \in DOMAIN stations |-> stations[f[i]]] :
        f \in {g \in [DOMAIN stations -> DOMAIN stations] :
                  \A i, j \in DOMAIN stations : i # j => g[i] # g[j]}}

\* C11: the chain of get_train_route is the same for every order in which
\* the raw previous_stations and upcoming_stations lists arrive, also when
\* entries carry equal si_no.
C11_RouteIgnoresListOrder ==
    RouteDone =>
        \A u \in Reorderings(fn_args.train_status.upcoming_stations),
           v \in Reorderings(fn_args.train_status.previous_stations) :
            get_train_route([fn_args.train_status EXCEPT !.upcoming_stations = u,
                                                         !.previous_stations = v],
                            fn_args.include_non_stops) = fn_ret.val

----------------------------------------------------------------------------
(* The upcoming-stations digest on its own *)

\* how many entries the raw upcoming list holds, and the largest limit asked for
MaxUpcoming == 3

UpcomingLists(n) ==
    {[i \in 1..n |-> Station("upcoming", i, f[i][1], f[i][2], <<>>)] :
        f \in [1..n -> (1..MaxSi) \X {KB, <<>>}]}

InitUpcoming ==
    /\ today = BaseOrd
    /\ ToolsIdle
    /\ \E n \in 0..MaxUpcoming, limit \in 0..MaxUpcoming :
          \E u \in UpcomingLists(n) :
              fn_args = [fn |-> "get_upcoming_stations",
                         train_status |-> TrainStatusData(KB, 1, u, <<>>), limit |-> limit]
    /\ fn_ret = NotCalled

\* data = train_status.data of a train_status that is None: AttributeError
Apply_get_upcoming_stations ==
    /\ fn_args.fn = "get_upcoming_stations"
    /\ fn_ret = NotCalled
    /\ fn_ret' = IF fn_args.train_status = None THEN Failure("AttributeError")
                 ELSE Value(get_upcoming_stations(fn_args.train_status, fn_args.limit))
    /\ UNCHANGED <<toolVars, fn_args>>

NextUpcoming == Apply_get_upcoming_stations

SpecUpcoming == InitUpcoming /\ [][NextUpcoming]_vars

UpcomingDone == fn_args.fn = "get_upcoming_stations" /\ fn_ret # NotCalled

\* the numbered station lines of a digest, in the order they are printed
Listing(digest) == SelectSeq(digest, LAMBDA part : part.msg = "N. name (code)")

\* the remaining-stations lines of a digest
Trailers(digest) == SelectSeq(digest, LAMBDA part : part.msg = "... and more stations")

\* the upcoming stations that are no placeholders
QualifyingStations(ts) ==
    {i \in DOMAIN ts.upcoming_stations : ts.upcoming_stations[i].station_code # <<>>}

\* C12: the digest for limit N lists at most N upcoming stations, none of
\* them a placeholder, numbered 1..k, and ends with the count of the
\* qualifying stations beyond the k listed exactly when that count is
\* greater than 0.
C12_DigestRespectsLimit ==
    UpcomingDone =>
        LET ts == fn_args.train_status
            listed == Listing(fn_ret.val)
            k == Len(listed)
            rest == Cardinality(QualifyingStations(ts)) - k
        IN  /\ k <= fn_args.limit
            /\ \A j \in 1..k :
                  /\ listed[j].values[1] = j
                  /\ listed[j].values[3] # <<>>
                  /\ \E i \in QualifyingStations(ts) :
                        listed[j].values[2] = ts.upcoming_stations[i].station_name
            /\ \A j, m \in 1..k : j # m => listed[j].values[2] # listed[m].values[2]
            /\ rest >= 0
            /\ rest > 0 <=> Trailers(fn_ret.val) # <<>>
            /\ rest > 0 => /\ Trailers(fn_ret.val) = <<Part("... and more stations", <<rest>>)>>
                           /\ fn_ret.val[Len(fn_ret.val)].msg = "... and more stations"

\* the limit cut the listing short of a list that also holds a placeholder
C12_Witness ==
    /\ UpcomingDone
    /\ Len(Listing(fn_ret.val)) = fn_args.limit
    /\ fn_args.limit > 0
    /\ Trailers(fn_ret.val) # <<>>
    /\ \E i \in DOMAIN fn_args.train_status.upcoming_stations :
          fn_args.train_status.upcoming_stations[i].station_code = <<>>

\* C13: the stations of the digest are listed by ascending si_no and are the
\* qualifying stations of smallest si_no, in whatever order the raw upcoming
\* list arrives.
C13_DigestInRouteOrder ==
    UpcomingDone =>
        LET ts == fn_args.train_status
            listed == Listing(fn_ret.val)
            SiOf(name) == ts.upcoming_stations[CHOOSE i \in DOMAIN ts.upcoming_stations :
                                 ts.upcoming_stations[i].station_name = name].si_no
            shown == {listed[j].values[2] : j \in DOMAIN listed}
        IN  /\ \A j, m \in DOMAIN listed :
                  j < m => SiOf(listed[j].values[2]) <= SiOf(listed[m].values[2])
            /\ \A i \in QualifyingStations(ts) :
                  ts.upcoming_stations[i].station_name \notin shown =>
                      \A name \in shown : SiOf(name) <= ts.upcoming_stations[i].si_no

----------------------------------------------------------------------------
(* Delay and progress arithmetic on its own *)

\* the largest delay, late or early, in minutes
MaxDelay == 130

\* the largest distance in km
MaxDistance == 8

InitDelay ==
    /\ today = BaseOrd
    /\ ToolsIdle
    /\ \E f \in {"format_delay", "get_delay_hours_minutes"}, d \in (0 - MaxDelay)..MaxDelay :
          fn_args = [fn |-> f, delay |-> d]
    /\ fn_ret = NotCalled

Apply_format_delay ==
    /\ fn_args.fn = "format_delay"
    /\ fn_ret = NotCalled
    /\ fn_ret' = Value(format_delay(fn_args.delay))
    /\ UNCHANGED <<toolVars, fn_args>>

Apply_get_delay_hours_minutes ==
    /\ fn_args.fn = "get_delay_hours_minutes"
    /\ fn_ret = NotCalled
    /\ fn_ret' = Value(get_delay_hours_minutes(fn_args.delay))
    /\ UNCHANGED <<toolVars, fn_args>>

NextDelay == Apply_format_delay \/ Apply_get_delay_hours_minutes

SpecDelay == InitDelay /\ [][NextDelay]_vars

InitProgress ==
    /\ today = BaseOrd
    /\ ToolsIdle
    /\ \E covered \in 0..MaxDistance, total \in 0..MaxDistance :
          fn_args = [fn |-> "get_progress_percentage",
                     distance_from_source |-> covered, total_distance |-> total]
    /\ fn_ret = NotCalled

Apply_get_progress_percentage ==
    /\ fn_args.fn = "get_progress_percentage"
    /\ fn_ret = NotCalled
    /\ fn_ret' = Value(get_progress_percentage(fn_args.distance_from_source,
                                               fn_args.total_distance))
    /\ UNCHANGED <<toolVars, fn_args>>

NextProgress == Apply_get_progress_percentage

SpecProgress == InitProgress /\ [][NextProgress]_vars

FormatDelayDone == fn_args.fn = "format_delay" /\ fn_ret # NotCalled

\* the whole hours of d minutes: the H with 60 H <= d < 60 (H + 1)
WholeHours(d) == CHOOSE H \in (0 - MaxDelay - 1)..(MaxDelay + 1) : 60 * H <= d /\ d < 60 * (H + 1)

\* C14: format_delay(d) is 'On Time' iff d = 0; for d > 0 it is 'Delayed by
\* Hh Mm' with H the whole hours and M the minutes left over when H > 0, and
\* 'Delayed by d mins' when H = 0; for d < 0 it is 'Early by |d| mins'; and
\* format_delay(67) is 'Delayed by 1h 7m'.
C14_FormatDelay ==
    FormatDelayDone =>
        LET d == fn_args.delay
            H == WholeHours(d)
            text == fn_ret.val
        IN  /\ text.msg = "On Time" <=> d = 0
            /\ text.msg \in {"Delayed by h m", "Delayed by mins"} <=> d > 0
            /\ text.msg = "Early by mins" <=> d < 0
            /\ (d > 0 /\ H > 0) => text = Part("Delayed by h m", <<H, d - 60 * H>>)
            /\ (d > 0 /\ H = 0) => text = Part("Delayed by mins", <<d>>)
            /\ d < 0 => text = Part("Early by mins", <<IF d < 0 THEN 0 - d ELSE d>>)
            /\ d = 67 => text = Part("Delayed by h m", <<1, 7>>)

C14_Witness == FormatDelayDone /\ fn_args.delay = 125 /\ fn_ret.val.values = <<2, 5>>

HoursMinutesDone == fn_args.fn = "get_delay_hours_minutes" /\ fn_ret # NotCalled

\* C15: get_delay_hours_minutes gives hours and minutes of the signed delay
\* with hours * 60 + minutes = delay and 0 <= minutes < 60, for negative
\* delays too; delay 67 gives (1, 7).
C15_HoursMinutesOfSignedDelay ==
    HoursMinutesDone =>
        LET hours == fn_ret.val[1]
            minutes == fn_ret.val[2]
        IN  /\ hours * 60 + minutes = fn_args.delay
            /\ 0 <= minutes /\ minutes < 60
            /\ fn_args.delay = 67 => fn_ret.val = <<1, 7>>

C15_Witness == HoursMinutesDone /\ fn_args.delay = 0 - 67 /\ fn_ret.val = <<0 - 2, 53>>

ProgressDone == fn_args.fn = "get_progress_percentage" /\ fn_ret # NotCalled

\* C16: get_progress_percentage is 0 when total_distance is 0, and between 0
\* and 100 when distance_from_source <= total_distance.
C16_ProgressWithinRange ==
    ProgressDone =>
        LET p == fn_ret.val
        IN  /\ p.den > 0
            /\ fn_args.total_distance = 0 => p.num = 0
            /\ fn_args.distance_from_source <= fn_args.total_distance =>
                  (0 <= p.num /\ p.num <= 100 * p.den)

C16_Witness ==
    /\ ProgressDone
    /\ fn_args.total_distance = 0
    /\ fn_args.distance_from_source > 0
    /\ fn_ret.val.num = 0

----------------------------------------------------------------------------
(* The passenger reports on their own *)

\* how many passengers a PNR record lists, and the largest PassengerCount
MaxPassengers == 2

Passenger(Number, CurrentStatus, CurrentStatusNew, BookingStatusNew, CurrentBerthCode) ==
    [Number |-> Number, CurrentStatus |-> CurrentStatus, CurrentStatusNew |-> CurrentStatusNew,
     BookingStatusNew |-> BookingStatusNew, CurrentBerthCode |-> CurrentBerthCode,
     CurrentCoachId |-> "B1", CurrentBerthNo |-> "23"]

PassengerPNRData(count, passengers) ==
    [TrainNo |-> "12618", SourceDoj |-> BaseDate,
     PassengerCount |-> count, PassengerStatus |-> passengers]

PassengerReports == {"check_confirm_status", "get_coach_and_berth", "get_waitlist_position"}

\* the values of the fields a report reads; Number 0 stands for the place in the list
PassengerChoices(f) ==
    CASE f = "check_confirm_status" ->
           {Passenger(n, cs, csn, <<>>, None) :
               n \in 1..MaxPassengers,
               cs \in {<<"C", "N", "F">>, <<"R", "A", "C">>, <<"W", "L">>},
               csn \in {<<"C", "N", "F">>, <<"R", "A", "C", "/", "1", "2">>}}
      [] f = "get_coach_and_berth" ->
           {Passenger(0, cs, cs, <<>>, bc) :
               cs \in {<<"C", "N", "F">>, <<" ", "c", "n", "f">>, <<"R", "a", "c", " ">>, <<"C", "N", "F", "/", "S", "5">>, <<"W", "L">>, <<"N", "C", "N", "F">>, <<>>},
               bc \in {None} \cup {Str(c) : c \in {<<>>, <<"L", "B">>, <<"l", "b", " ">>, <<"X", "X">>}}}
      [] f = "get_waitlist_position" ->
           {Passenger(0, cs, cs, bs, None) :
               cs \in {<<"C", "N", "F">>, <<" ", "r", "a", "c">>, <<"W", "L">>},
               bs \in {<<"G", "N", "W", "L", "/", "1", "2">>, <<"g", "n", "w", "l", " ", "/", "7">>, <<"W", "L", "/", "5", "/", "3">>, <<"X", "X", "/", "1">>, <<"/", "4">>, <<"G", "N", "W", "L", "/">>, <<"C", "N", "F">>, <<>>}}

\* a record listing the passengers g, each numbered by its place unless it
\* brings a Number
PassengerRecord(count, g) ==
    [kind |-> "PNRResponse", status |-> TRUE,
     data |-> PassengerPNRData(count,
                  [i \in DOMAIN g |-> IF g[i].Number = 0
                                      THEN [g[i] EXCEPT !.Number = i] ELSE g[i]])]

InitPassengers ==
    /\ today = BaseOrd
    /\ ToolsIdle
    /\ \E f \in PassengerReports :
          \/ fn_args = [fn |-> f, pnr_status |-> None]
          \/ fn_args = [fn |-> f,
                        pnr_status |-> [kind |-> "PNRResponse", status |-> TRUE, data |-> None]]
          \/ \E n \in 0..MaxPassengers, count \in 0..MaxPassengers :
                \E g \in [1..n -> PassengerChoices(f)] :
                    fn_args = [fn |-> f, pnr_status |-> PassengerRecord(count, g)]
    /\ fn_ret = NotCalled

Apply_check_confirm_status ==
    /\ fn_args.fn = "check_confirm_status"
    /\ fn_ret = NotCalled
    /\ fn_ret' = Value(check_confirm_status(fn_args.pnr_status))
    /\ UNCHANGED <<toolVars, fn_args>>

Apply_get_coach_and_berth ==
    /\ fn_args.fn = "get_coach_and_berth"
    /\ fn_ret = NotCalled
    /\ fn_ret' = Value(get_coach_and_berth(fn_args.pnr_status))
    /\ UNCHANGED <<toolVars, fn_args>>

Apply_get_waitlist_position ==
    /\ fn_args.fn = "get_waitlist_position"
    /\ fn_ret = NotCalled
    /\ fn_ret' = Value(get_waitlist_position(fn_args.pnr_status))
    /\ UNCHANGED <<toolVars, fn_args>>

NextPassengers ==
    \/ Apply_check_confirm_status
    \/ Apply_get_coach_and_berth
    \/ Apply_get_waitlist_position

SpecPassengers == InitPassengers /\ [][NextPassengers]_vars

ReportDone(f) == fn_args.fn = f /\ fn_ret # NotCalled

HasRecord == fn_args.pnr_status # None /\ fn_args.pnr_status.data # None

\* the 'Passenger-' lines of a report
PassengerLines(report) == SelectSeq(report, LAMBDA part : part.msg = "Passenger-")

\* C17: for every PNR record, each of the three passenger reports has as
\* many 'Passenger-' lines as the record's PassengerCount says.
C17_LinesEqualPassengerCount ==
    ((\E f \in PassengerReports : ReportDone(f)) /\ HasRecord) =>
        Len(PassengerLines(fn_ret.val)) = fn_args.pnr_status.data.PassengerCount

Passengers == fn_args.pnr_status.data.PassengerStatus

\* the orders in which the passengers can be taken
PassengerOrders ==
    {f \in [DOMAIN Passengers -> DOMAIN Passengers] :
        \A i, j \in DOMAIN Passengers : i # j => f[i] # f[j]}

StartsWithCnfOrRac(text) ==
    \E k \in 0..Len(text) :
        /\ \A j \in 1..k : text[j] = " "
        /\ Len(text) >= k + 3
        /\ \/ text[k + 1] \in {"c", "C"} /\ text[k + 2] \in {"n", "N"} /\ text[k + 3] \in {"f", "F"}
           \/ text[k + 1] \in {"r", "R"} /\ text[k + 2] \in {"a", "A"} /\ text[k + 3] \in {"c", "C"}

\* C19: the coach and berth report gives a passenger's coach and berth
\* exactly when the CurrentStatus, trimmed and whatever its case, starts with
\* CNF or RAC, and 'Not Confirmed' otherwise; the berth label follows in
\* parentheses exactly when a berth code is present, the label of the table
\* for a code of the table, and a text naming the code for any other code.
C19_CoachAndBerthForConfirmed ==
    (ReportDone("get_coach_and_berth") /\ HasRecord /\ Passengers # <<>>) =>
        /\ Len(fn_ret.val) = Len(Passengers)
        /\ \A i \in DOMAIN Passengers :
              LET p == Passengers[i]
                  line == fn_ret.val[i]
                  text == line.values[2]
                  present == p.CurrentBerthCode # None /\ p.CurrentBerthCode # Str(<<>>)
              IN  /\ line.msg = "Passenger-" /\ line.values[1] = p.Number
                  /\ text.msg \in {"Coach: , Berth: ", "Coach: , Berth:  ()", "Not Confirmed"}
                  /\ text.msg # "Not Confirmed" <=> StartsWithCnfOrRac(p.CurrentStatus)
                  /\ text.msg # "Not Confirmed" =>
                        /\ text.values[1] = p.CurrentCoachId
                        /\ text.values[2] = p.CurrentBerthNo
                        /\ text.msg = "Coach: , Berth:  ()" <=> present
                  /\ (text.msg = "Coach: , Berth:  ()"
                         /\ p.CurrentBerthCode \in {Str(<<"L", "B">>), Str(<<"l", "b", " ">>)}) =>
                        text.values[3] = Part("Lower Berth", <<>>)
                  /\ (text.msg = "Coach: , Berth:  ()" /\ p.CurrentBerthCode = Str(<<"X", "X">>)) =>
                        text.values[3] = Part("Unknown Birth Code - ", <<<<"X", "X">>>>)

\* a status with a suffix counts as confirmed and its berth code is decoded
C19_Witness ==
    /\ ReportDone("get_coach_and_berth")
    /\ HasRecord
    /\ Len(Passengers) = 2
    /\ Passengers[1].CurrentStatus = <<"C", "N", "F", "/", "S", "5">>
    /\ Passengers[1].CurrentBerthCode = Str(<<"l", "b", " ">>)
    /\ fn_ret.val[1].values[2].msg = "Coach: , Berth:  ()"
    /\ Passengers[2].CurrentStatus = <<"N", "C", "N", "F">>
    /\ fn_ret.val[2].values[2].msg = "Not Confirmed"

\* the text before the first '/' of a text that holds one
BeforeSlash(text) ==
    SubSeq(text, 1, (CHOOSE k \in DOMAIN text :
                        text[k] = "/" /\ \A j \in 1..(k - 1) : text[j] # "/") - 1)

\* the whole text after the first '/'
AfterSlash(text) == SubSeq(text, Len(BeforeSlash(text)) + 2, Len(text))

\* C20: for a passenger that is not confirmed-or-RAC and whose
\* BookingStatusNew holds a '/', the waitlist report gives 'Position <n> in
\* <label> (<code>)' with <code> the text before the first '/' and <n> the
\* whole text after it; 'GNWL/12' gives 'Position 12 in General Waitlist
\* (GNWL)'; a confirmed-or-RAC passenger gets 'Already Confirmed/RAC'.
C20_WaitlistPositionSplit ==
    (ReportDone("get_waitlist_position") /\ HasRecord /\ Passengers # <<>>) =>
        /\ Len(fn_ret.val) = Len(Passengers)
        /\ \A i \in DOMAIN Passengers :
              LET p == Passengers[i]
                  text == fn_ret.val[i].values[2]
              IN  /\ StartsWithCnfOrRac(p.CurrentStatus) =>
                        text = Part("Already Confirmed/RAC", <<>>)
                  /\ (~StartsWithCnfOrRac(p.CurrentStatus)
                         /\ \E k \in DOMAIN p.BookingStatusNew : p.BookingStatusNew[k] = "/") =>
                        text = Part("Position  in  ()",
                                    <<AfterSlash(p.BookingStatusNew),
                                      decode_ticket_status(BeforeSlash(p.BookingStatusNew)),
                                      BeforeSlash(p.BookingStatusNew)>>)
                  /\ (~StartsWithCnfOrRac(p.CurrentStatus)
                         /\ p.BookingStatusNew = <<"G", "N", "W", "L", "/", "1", "2">>) =>
                        text = Part("Position  in  ()",
                                    <<<<"1", "2">>, Part("General Waitlist", <<>>), <<"G", "N", "W", "L">>>>)

\* C21: for a passenger that is not confirmed-or-RAC and whose
\* BookingStatusNew gives fewer than two '/'-separated parts, the waitlist
\* report has that passenger's one line, which carries the text as it is,
\* or 'Unknown' when the text is empty.
C21_WaitlistFallbackVerbatim ==
    (ReportDone("get_waitlist_position") /\ HasRecord /\ Passengers # <<>>) =>
        /\ Len(fn_ret.val) = Len(Passengers)
        /\ \A i \in DOMAIN Passengers :
              LET p == Passengers[i]
                  line == fn_ret.val[i]
              IN  /\ line.msg = "Passenger-" /\ line.values[1] = p.Number
                  /\ (~StartsWithCnfOrRac(p.CurrentStatus)
                         /\ \A k \in DOMAIN p.BookingStatusNew : p.BookingStatusNew[k] # "/") =>
                        line.values[2] = IF p.BookingStatusNew = <<>>
                                         THEN Part("Unknown", <<>>)
                                         ELSE Part("", <<p.BookingStatusNew>>)

\* a waitlisted passenger with a text without '/' next to one with no text
C21_Witness ==
    /\ ReportDone("get_waitlist_position")
    /\ HasRecord
    /\ Len(Passengers) = 2
    /\ Passengers[1].CurrentStatus = <<"W", "L">>
    /\ Passengers[1].BookingStatusNew = <<"C", "N", "F">>
    /\ fn_ret.val[1].values[2] = Part("", <<<<"C", "N", "F">>>>)
    /\ Passengers[2].CurrentStatus = <<"W", "L">>
    /\ Passengers[2].BookingStatusNew = <<>>
    /\ fn_ret.val[2].values[2] = Part("Unknown", <<>>)

----------------------------------------------------------------------------
(* The decoders of status_decoders.py on their own *)

\* a table code as upstream may spell it: as it is, in lower case, padded
Spellings(code) == {code, str_lower(code), <<" ">> \o code \o <<" ">>}

\* codes outside both tables, and texts of blanks only
UnknownCodes ==
    {<<"X", "X">>, <<"x", "x">>, <<" ", "x", "y", " ">>, <<"X", "Y", "Z">>, <<"c", "n", "f", "x">>,
     <<" ">>, <<" ", " ">>}

\* the arguments of a decoder: None, the empty text, table codes, other codes
DecoderCodes(map) ==
    {None, Str(<<>>)}
        \cup {Str(s) : s \in UNION {Spellings(e[1]) : e \in map}}
        \cup {Str(c) : c \in UnknownCodes}

InitDecoders ==
    /\ today = BaseOrd
    /\ ToolsIdle
    /\ \E f \in {"decode_ticket_status", "decode_berth"} :
          \E c \in DecoderCodes(IF f = "decode_ticket_status" THEN STATUS_MAP ELSE BERTH_MAP) :
             fn_args = [fn |-> f, code |-> c]
    /\ fn_ret = NotCalled

\* 'not status_code' holds for None and for the empty text alike
Apply_decode_ticket_status ==
    /\ fn_args.fn = "decode_ticket_status"
    /\ fn_ret = NotCalled
    /\ fn_ret' = Value(decode_ticket_status(IF fn_args.code = None THEN <<>> ELSE fn_args.code.val))
    /\ UNCHANGED <<toolVars, fn_args>>

Apply_decode_berth ==
    /\ fn_args.fn = "decode_berth"
    /\ fn_ret = NotCalled
    /\ fn_ret' = Value(decode_berth(IF fn_args.code = None THEN <<>> ELSE fn_args.code.val))
    /\ UNCHANGED <<toolVars, fn_args>>

NextDecoders == Apply_decode_ticket_status \/ Apply_decode_berth

SpecDecoders == InitDecoders /\ [][NextDecoders]_vars

DecoderDone == fn_args.fn \in {"decode_ticket_status", "decode_berth"} /\ fn_ret # NotCalled

\* the table, the fallback format and the label for no code of the decoder called
DecoderMap == IF fn_args.fn = "decode_ticket_status" THEN STATUS_MAP ELSE BERTH_MAP

DecoderFallback ==
    IF fn_args.fn = "decode_ticket_status" THEN "Unknown Booking Status Code - ()"
    ELSE "Unknown Birth Code - "

DecoderSentinel == IF fn_args.fn = "decode_ticket_status" THEN "Unknown Status" ELSE " "

\* text holds the characters of part as one run
Embeds(text, part) ==
    \E k \in 0..(Len(text) - Len(part)) : SubSeq(text, k + 1, k + Len(part)) = part

\* C22: a code that, trimmed and uppercased, is in the decoder's table
\* decodes to its table label, which is not empty and not of the fallback
\* format; every other non-empty code decodes to the fallback label holding
\* the code as it was given; the empty text and None decode to the decoder's
\* label for no code.
C22_DecodersTotal ==
    DecoderDone =>
        IF fn_args.code = None \/ fn_args.code = Str(<<>>)
        THEN fn_ret.val = Part(DecoderSentinel, <<>>)
        ELSE LET code == fn_args.code.val
                 norm == str_upper(str_strip(code))
             IN  IF \E e \in DecoderMap : e[1] = norm
                 THEN /\ \E e \in DecoderMap : e[1] = norm /\ fn_ret.val = Part(e[2], <<>>)
                      /\ fn_ret.val.msg # ""
                      /\ fn_ret.val.msg # DecoderFallback
                 ELSE /\ fn_ret.val.msg = DecoderFallback
                      /\ Len(fn_ret.val.values) = 1
                      /\ Embeds(fn_ret.val.values[1], code)

----------------------------------------------------------------------------
(* The legacy reports of pnr_functions.py on their own *)

\* a passenger of the legacy schema; a field not given is None
LegacyPassenger(bookingStatus, currentStatus, currentBerthCode, bookingStatusDetails) ==
    [passengerSerialNumber |-> 0,
     bookingStatus |-> bookingStatus, currentStatus |-> currentStatus,
     currentCoachId |-> Str(<<"B", "1">>), currentBerthNo |-> 25,
     currentBerthCode |-> currentBerthCode, bookingStatusDetails |-> bookingStatusDetails]

\* the text of an optional str where the code tests it with 'not'
OrEmpty(v) == IF v = None THEN <<>> ELSE v.val

\* str(v) of an optional str
str_of(v) == IF v = None THEN <<"N", "o", "n", "e">> ELSE v.val

\* a str indexed as Python indexes it: every item is a str of one character
Chars(s) == [i \in DOMAIN s |-> <<s[i]>>]

LegacyLine(p, text) == Part("Passenger-", <<p.passengerSerialNumber, text>>)

checkConfirmStatus(passengers) ==
    IF passengers = <<>> THEN Text("Confirm status not available.")
    ELSE [i \in DOMAIN passengers |->
             LegacyLine(passengers[i], decode_ticket_status(OrEmpty(passengers[i].currentStatus)))]

\* the coach and berth of a passenger whose booking status is CNF or RAC
LegacyCoachAndBerth_booking(p) ==
    IF p.bookingStatus \in {Str(<<"C", "N", "F">>), Str(<<"R", "A", "C">>)}
    THEN Part("Coach: , Berth:  - ()",
              <<p.currentCoachId, p.currentBerthNo, decode_berth(OrEmpty(p.currentBerthCode))>>)
    ELSE Part("Not Confirmed", <<>>)

LegacyCoachAndBerth(p) ==
    IF p.currentStatus \in {Str(<<"C", "N", "F">>), Str(<<"R", "A", "C">>)}
    THEN Part("Coach: , Berth:  - ()",
              <<p.currentCoachId, p.currentBerthNo, decode_berth(OrEmpty(p.currentBerthCode))>>)
    ELSE Part("Not Confirmed", <<>>)

getCoachAndBerth(passengers) ==
    IF passengers = <<>> THEN Text("Coach & Birth not available")
    ELSE [i \in DOMAIN passengers |->
             LegacyLine(passengers[i], LegacyCoachAndBerth(passengers[i]))]

\* position of the loop body: the parts of bookingStatusDetails, or the
\* characters of 'Already Confirmed'
LegacyPosition(p) ==
    IF p.currentStatus \in {Str(<<"C", "N", "F">>), Str(<<"R", "A", "C">>)}
    THEN Chars(<<"A", "l", "r", "e", "a", "d", "y", " ",
                 "C", "o", "n", "f", "i", "r", "m", "e", "d">>)
    ELSE str_split(str_of(p.bookingStatusDetails), "/")

\* the value returned, or the IndexError of position[1]
getWaitListPosition(passengers) ==
    IF \E i \in DOMAIN passengers : Len(LegacyPosition(passengers[i])) < 2
    THEN Failure("IndexError")
    ELSE IF passengers = <<>> THEN Value(Text("Unable to get waitlist position."))
    ELSE Value([i \in DOMAIN passengers |->
                   LET position == LegacyPosition(passengers[i])
                   IN  LegacyLine(passengers[i],
                                  Part(" in ()", <<position[2], decode_ticket_status(position[1]),
                                                   position[1]>>))])

LegacyReports == {"checkConfirmStatus", "getCoachAndBerth", "getWaitListPosition"}

CNF == <<"C", "N", "F">>
RAC == <<"R", "A", "C">>
WL == <<"W", "L">>
GNWL == <<"G", "N", "W", "L">>

\* the booking status and the current status of a passenger: the status given
\* as bookingStatus alone, as both, or in another spelling
LegacyStatuses ==
    {<<Str(s), None>> : s \in {CNF, RAC, WL, GNWL}}
        \cup {<<Str(s), Str(s)>> : s \in {CNF, RAC, WL}}
        \cup {<<Str(CNF), Str(<<"c", "n", "f">>)>>}

\* the values of the fields a legacy report reads
LegacyChoices(f) ==
    CASE f = "checkConfirmStatus" ->
           {LegacyPassenger(st[1], st[2], Str(<<"L", "B">>), None) : st \in LegacyStatuses}
      [] f = "getCoachAndBerth" ->
           {LegacyPassenger(st[1], st[2], bc, None) :
               st \in LegacyStatuses,
               bc \in {None, Str(<<"L", "B">>), Str(<<"S", "L">>)}}
      [] f = "getWaitListPosition" ->
           {LegacyPassenger(None, cs, None, d) :
               cs \in {None, Str(CNF), Str(RAC), Str(WL)},
               d \in {None} \cup {Str(t) : t \in {<<"W", "L", "/", "1", "5">>,
                                                  <<"G", "N", "W", "L", "/", "2", "0">>,
                                                  <<"C", "N", "F", "/", "B", "1", "/", "2", "5", "/", "L", "B">>,
                                                  <<"W", "L">>, <<>>}}}

\* the passengers numbered by their place in the list
LegacyList(g) == [i \in DOMAIN g |-> [g[i] EXCEPT !.passengerSerialNumber = i]]

InitLegacy ==
    /\ today = BaseOrd
    /\ ToolsIdle
    /\ \E f \in LegacyReports, n \in 0..MaxPassengers :
          \E g \in [1..n -> LegacyChoices(f)] :
              fn_args = [fn |-> f, passengers |-> LegacyList(g)]
    /\ fn_ret = NotCalled

Apply_checkConfirmStatus ==
    /\ fn_args.fn = "checkConfirmStatus"
    /\ fn_ret = NotCalled
    /\ fn_ret' = Value(checkConfirmStatus(fn_args.passengers))
    /\ UNCHANGED <<toolVars, fn_args>>

Apply_getCoachAndBerth ==
    /\ fn_args.fn = "getCoachAndBerth"
    /\ fn_ret = NotCalled
    /\ fn_ret' = Value(getCoachAndBerth(fn_args.passengers))
    /\ UNCHANGED <<toolVars, fn_args>>

Apply_getWaitListPosition ==
    /\ fn_args.fn = "getWaitListPosition"
    /\ fn_ret = NotCalled
    /\ fn_ret' = getWaitListPosition(fn_args.passengers)
    /\ UNCHANGED <<toolVars, fn_args>>

NextLegacy == Apply_checkConfirmStatus \/ Apply_getCoachAndBerth \/ Apply_getWaitListPosition

SpecLegacy == InitLegacy /\ [][NextLegacy]_vars

LegacyDone(f) == fn_args.fn = f /\ fn_ret # NotCalled

\* the status of every passenger is one of the four and is given as
\* bookingStatus alone, with coach, berth number and berth code set
StatusGivenAsBooking(passengers) ==
    /\ passengers # <<>>
    /\ \A i \in DOMAIN passengers :
          /\ passengers[i].bookingStatus \in {Str(CNF), Str(RAC), Str(WL), Str(GNWL)}
          /\ passengers[i].currentStatus = None
          /\ passengers[i].currentBerthCode # None

\* C25: for passengers whose status (CNF, RAC, WL or GNWL) is given as
\* bookingStatus alone, checkConfirmStatus gives every passenger the decoded
\* label of that status, and getCoachAndBerth gives the CNF and RAC
\* passengers 'Coach: <id>, Berth: <n>' with the decoded berth label and the
\* waitlisted ones 'Not Confirmed'.
C25_LegacyReportsFromBookingStatus ==
    /\ (LegacyDone("checkConfirmStatus") /\ StatusGivenAsBooking(fn_args.passengers)) =>
          /\ Len(fn_ret.val) = Len(fn_args.passengers)
          /\ \A i \in DOMAIN fn_args.passengers :
                fn_ret.val[i] = LegacyLine(fn_args.passengers[i],
                                           decode_ticket_status(fn_args.passengers[i].bookingStatus.val))
    /\ (LegacyDone("getCoachAndBerth") /\ StatusGivenAsBooking(fn_args.passengers)) =>
          /\ Len(fn_ret.val) = Len(fn_args.passengers)
          /\ \A i \in DOMAIN fn_args.passengers :
                fn_ret.val[i] = LegacyLine(fn_args.passengers[i],
                                           LegacyCoachAndBerth_booking(fn_args.passengers[i]))

\* C30: getWaitListPosition returns for every list of passengers, whatever
\* their bookingStatusDetails (also None or a text without '/'), a report
\* with one line per passenger; a passenger whose currentStatus is CNF or RAC
\* is reported as already confirmed and not as a position, and every other
\* passenger whose bookingStatusDetails has two parts or more as
\* '<second part> in <label of the first part>(<first part>)'.
C30_LegacyWaitlistPosition ==
    LegacyDone("getWaitListPosition") =>
        /\ fn_ret # Failure("IndexError")
        /\ fn_args.passengers # <<>> =>
              /\ Len(fn_ret.val) = Len(fn_args.passengers)
              /\ \A i \in DOMAIN fn_args.passengers :
                    LET p == fn_args.passengers[i]
                        parts == str_split(str_of(p.bookingStatusDetails), "/")
                        text == fn_ret.val[i].values[2]
                    IN  /\ fn_ret.val[i].msg = "Passenger-"
                        /\ fn_ret.val[i].values[1] = p.passengerSerialNumber
                        /\ p.currentStatus \in {Str(CNF), Str(RAC)} =>
                              text = Part("Already Confirmed", <<>>)
                        /\ (p.currentStatus \notin {Str(CNF), Str(RAC)} /\ Len(parts) >= 2) =>
                              text = Part(" in ()", <<parts[2], decode_ticket_status(parts[1]),
                                                      parts[1]>>)

----------------------------------------------------------------------------
(* The position report and the brief summary on their own *)

NextStoppageInfo(next_stoppage_delay) ==
    [next_stoppage |-> "Kacheguda", next_stoppage_time_diff |-> "in 25 mins",
     next_stoppage_delay |-> next_stoppage_delay]

BubbleMessage == [station_name |-> "Kamareddi", message_type |-> "Departed", station_time |-> "09:40"]

\* a NewTrainStatusResponse with the fields the reports read, no station listed
PositionData(delay, status, next_stoppage_info, bubble_message) ==
    [train_number |-> "17606", train_name |-> "Bhagat Ki Kothi - Kacheguda Express",
     source |-> "BGKT", destination |-> "KCG",
     source_stn_name |-> "Bhagat Ki Kothi", dest_stn_name |-> "Kacheguda",
     current_station_code |-> KB, current_station_name |-> <<"current", 0>>,
     si_no |-> 1, eta |-> "09:58", upcoming_stations |-> <<>>, previous_stations |-> <<>>,
     status |-> status, distance_from_source |-> 3, total_distance |-> MaxDistance,
     ahead_distance_text |-> IF status = "T" THEN "5 km ahead" ELSE "",
     delay |-> delay, next_stoppage_info |-> next_stoppage_info,
     bubble_message |-> bubble_message,
     status_as_of |-> "As of 2 mins ago", update_time |-> IF status = "T" THEN "09:58" ELSE ""]

\* status_map.get(data.status, data.status)
StatusText(status) ==
    CASE status = "T" -> "In Transit"
      [] status = "A" -> "Arrived"
      [] status = "D" -> "Departed"
      [] status = "S" -> "At Station"
      [] OTHER -> status

\* the delay lines of the position report
PositionDelayLines(delay) ==
    IF delay > 0
    THEN LET hm == get_delay_hours_minutes(delay)
         IN  IF hm[1] > 0 THEN <<Part("Delay: h m", <<hm[1], hm[2]>>)>>
             ELSE <<Part("Delay: mins", <<hm[2]>>)>>
    ELSE IF delay = 0 THEN <<Part("Running: On Time", <<>>)>>
    ELSE <<>>

NextStopLines(info) ==
    IF info = None THEN <<>>
    ELSE <<Part("Next Stop", <<info.next_stoppage, info.next_stoppage_time_diff>>)>>
         \o Line(info.next_stoppage_delay > 0,
                 Part("Next Stop Delay", <<format_delay(info.next_stoppage_delay)>>))

get_current_train_position(train_status) ==
    LET data == train_status
    IN  <<Part("Current Train Position", <<data.train_name, data.train_number>>),
          Part("Route", <<data.source_stn_name, data.source, data.dest_stn_name, data.destination>>),
          Part("Current Station", <<data.current_station_name, data.current_station_code>>),
          Part("Status", <<StatusText(data.status)>>),
          Part("Distance Covered", <<data.distance_from_source, data.total_distance>>),
          Part("Progress", <<get_progress_percentage(data.distance_from_source,
                                                     data.total_distance)>>)>>
        \o Line(data.ahead_distance_text # "", Part("Position", <<data.ahead_distance_text>>))
        \o PositionDelayLines(data.delay)
        \o NextStopLines(data.next_stoppage_info)
        \o <<Part("", <<data.status_as_of>>)>>
        \o Line(data.update_time # "", Part("Last Updated", <<data.update_time>>))

\* the delay line of the summary
SummaryDelayLine(delay) ==
    IF delay > 0
    THEN LET hm == get_delay_hours_minutes(delay)
         IN  IF hm[1] > 0 THEN Part("Running late by h m", <<hm[1], hm[2]>>)
             ELSE Part("Running late by mins", <<hm[2]>>)
    ELSE Part("Running on time", <<>>)

get_train_summary(train_status) ==
    LET data == train_status
    IN  <<Part("", <<data.train_name, data.train_number>>),
          Part("", <<data.source_stn_name, data.dest_stn_name>>),
          IF data.bubble_message # None
          THEN Part("", <<data.bubble_message.message_type, data.bubble_message.station_name>>)
          ELSE Part("Near", <<data.current_station_name>>),
          SummaryDelayLine(data.delay)>>
        \o (IF data.next_stoppage_info # None
            THEN <<Part("Next", <<data.next_stoppage_info.next_stoppage,
                                  data.next_stoppage_info.next_stoppage_time_diff>>)>>
            ELSE <<>>)
        \o <<Part("", <<data.status_as_of>>)>>

InitPosition ==
    /\ today = BaseOrd
    /\ ToolsIdle
    /\ \E f \in {"get_current_train_position", "get_train_summary"},
          d \in (0 - MaxDelay)..MaxDelay, st \in {"T", "X"},
          info \in {None, NextStoppageInfo(0), NextStoppageInfo(75)},
          bubble \in {None, BubbleMessage} :
          fn_args = [fn |-> f, train_status |-> PositionData(d, st, info, bubble)]
    /\ fn_ret = NotCalled

\* data = train_status.data of a train_status that is None: AttributeError
Apply_get_current_train_position ==
    /\ fn_args.fn = "get_current_train_position"
    /\ fn_ret = NotCalled
    /\ fn_ret' = IF fn_args.train_status = None THEN Failure("AttributeError")
                 ELSE Value(get_current_train_position(fn_args.train_status))
    /\ UNCHANGED <<toolVars, fn_args>>

Apply_get_train_summary ==
    /\ fn_args.fn = "get_train_summary"
    /\ fn_ret = NotCalled
    /\ fn_ret' = IF fn_args.train_status = None THEN Failure("AttributeError")
                 ELSE Value(get_train_summary(fn_args.train_status))
    /\ UNCHANGED <<toolVars, fn_args>>

NextPosition == Apply_get_current_train_position \/ Apply_get_train_summary

SpecPosition == InitPosition /\ [][NextPosition]_vars

PositionDone == fn_args.fn \in {"get_current_train_position", "get_train_summary"} /\ fn_ret # NotCalled

\* the lines of a report that tell how the train runs against its schedule
RunningLines(report) ==
    SelectSeq(report, LAMBDA line : line.msg \in {"Delay: h m", "Delay: mins", "Running: On Time",
                                                  "Running late by h m", "Running late by mins",
                                                  "Running on time", "Early by mins"})

OnTimeLines == {"Running: On Time", "Running on time"}

LateLines == {"Delay: h m", "Delay: mins", "Running late by h m", "Running late by mins"}

\* C28: the position report and the summary of a train with delay < 0 say
\* that it runs early by (0 - delay) minutes, and neither that it runs on
\* time nor that it is late; they say 'on time' exactly when delay = 0.
C28_EarlyRunningReported ==
    PositionDone =>
        LET running == RunningLines(fn_ret.val)
            delay == fn_args.train_status.delay
        IN  /\ delay < 0 => running = <<Part("Early by mins", <<0 - delay>>)>>
            /\ (\E i \in DOMAIN running : running[i].msg \in OnTimeLines) <=> delay = 0
            /\ delay < 0 => \A i \in DOMAIN running : running[i].msg \notin LateLines

----------------------------------------------------------------------------
(* The marker of the current station in the route *)

\* C29: in the chain of a train status that lists stations exactly one entry
\* carries the markers '>>> <<<', that entry is the current station, and no
\* other entry of the chain carries the current station's code, also when a
\* listed station has that code.
C29_CurrentStationMarkedOnce ==
    (RouteDone /\ HasRouteInformation(fn_args.train_status)) =>
        LET chain == fn_ret.val
            data == fn_args.train_status
            marked == {k \in DOMAIN chain : chain[k].msg = ">>> name (code) <<<"}
        IN  /\ Cardinality(marked) = 1
            /\ \A k \in marked :
                  chain[k].values = <<data.current_station_name, data.current_station_code>>
            /\ \A k \in DOMAIN chain \ marked : chain[k].values[2] # data.current_station_code

----------------------------------------------------------------------------
(* Every report on a record that is missing or empty *)

\* the PNRData of the summaries: the fields of PassengerPNRData and the flags
SummaryPNRData(chart, pantry, cancelled, passengers) ==
    [TrainNo |-> "12618", SourceDoj |-> BaseDate,
     PassengerCount |-> Len(passengers), PassengerStatus |-> passengers,
     ChartPrepared |-> chart, HasPantry |-> pantry, TrainCancelledFlag |-> cancelled]

\* the lines of the fields the model keeps
get_journey_overview(pnr_status) ==
    IF pnr_status = None THEN Text("Failed to receive API response.")
    ELSE IF pnr_status.data = None THEN Text("PNR data not available.")
    ELSE LET data == pnr_status.data
         IN  <<Part("Train", <<data.TrainNo>>),
               Part("Number of Passengers", <<data.PassengerCount>>),
               Part("Chart Prepared", <<IF data.ChartPrepared THEN "Yes" ELSE "No">>)>>
             \o Line(data.HasPantry, Part("Pantry Available: Yes", <<>>))
             \o Line(data.TrainCancelledFlag, Part("TRAIN CANCELLED", <<>>))

\* berth_desc, coach_info: the coach line of a confirmed-or-RAC passenger
SummaryCoach(p) ==
    IF p.CurrentBerthCode # None /\ p.CurrentBerthCode # Str(<<>>)
    THEN Part("Coach: , Berth:  ()",
              <<p.CurrentCoachId, p.CurrentBerthNo, decode_berth(p.CurrentBerthCode.val)>>)
    ELSE Part("Coach: , Berth: ", <<p.CurrentCoachId, p.CurrentBerthNo>>)

RECURSIVE PassengerBlocks(_)
PassengerBlocks(passengers) ==
    IF passengers = <<>> THEN <<>>
    ELSE LET p == Head(passengers)
         IN  <<Part("Passenger", <<p.Number>>),
               Part("Booking Status", <<p.BookingStatusNew>>),
               Part("Current Status", <<p.CurrentStatusNew>>)>>
             \o Line(is_confirmed_or_rac(p.CurrentStatus), SummaryCoach(p))
             \o PassengerBlocks(Tail(passengers))

get_passenger_summary(pnr_status) ==
    IF pnr_status = None THEN Text("PNR data not available.")
    ELSE IF pnr_status.data = None THEN Text("PNR data not available.")
    ELSE LET passengers == pnr_status.data.PassengerStatus
         IN  IF passengers = <<>> THEN Text("No passenger information available.")
             ELSE <<Part("Passengers", <<Len(passengers)>>)>> \o PassengerBlocks(passengers)

\* the line of one passenger in the complete summary
SummaryPassenger(p) ==
    LET status_upper == str_strip(str_upper(p.CurrentStatus))
        status_icon == IF str_startswith(status_upper, <<"C", "N", "F">>) THEN "confirmed"
                       ELSE IF str_startswith(status_upper, <<"R", "A", "C">>) THEN "rac"
                       ELSE "waiting"
        berth_desc == IF p.CurrentBerthCode # None /\ p.CurrentBerthCode # Str(<<>>)
                      THEN <<decode_berth(p.CurrentBerthCode.val)>> ELSE <<>>
    IN  Part("P", <<status_icon, p.Number, p.CurrentStatusNew>>
                  \o Line(is_confirmed_or_rac(p.CurrentStatus),
                          Part(" - / ()", <<p.CurrentCoachId, p.CurrentBerthNo>> \o berth_desc)))

get_pnr_summary(pnr_status) ==
    IF pnr_status = None THEN Text("PNR data not available.")
    ELSE IF pnr_status.data = None THEN Text("PNR data not available.")
    ELSE LET data == pnr_status.data
         IN  <<Part("PNR", <<data.TrainNo>>),
               Part(IF data.ChartPrepared THEN "Chart Prepared" ELSE "Chart Not Prepared", <<>>)>>
             \o Line(data.TrainCancelledFlag, Part("TRAIN CANCELLED", <<>>))
             \o <<Part("Passengers", <<data.PassengerCount>>)>>
             \o [i \in DOMAIN data.PassengerStatus |-> SummaryPassenger(data.PassengerStatus[i])]

\* the data of a legacy response
LegacyPNRData ==
    [dateOfJourney |-> "26-12-2025", sourceStation |-> "BGKT", destinationStation |-> "KCG",
     bookingDate |-> "01-12-2025", arrivalDate |-> "27-12-2025", ticketFare |-> 745,
     journeyClass |-> "3A", numberOfpassenger |-> 2]

RailwaysAPIResponse(success, data) ==
    [kind |-> "RailwaysAPIResponse", success |-> success, data |-> data]

getJourneyOverview(pnr_info) ==
    IF pnr_info = None THEN Text("Failed to receive source API response")
    ELSE IF pnr_info.data = None THEN Text("Problem in API.")
    ELSE LET data == pnr_info.data
         IN  <<Part("Date of journey", <<data.dateOfJourney>>),
               Part("Source station", <<data.sourceStation>>),
               Part("Destination station", <<data.destinationStation>>),
               Part("Booked on", <<data.bookingDate>>),
               Part("Scheduled completion at", <<data.arrivalDate>>),
               Part("Ticket fare", <<data.ticketFare>>),
               Part("Journey class", <<data.journeyClass>>),
               Part("Number of passengers", <<data.numberOfpassenger>>)>>

NewPnrReports ==
    PassengerReports \cup {"get_journey_overview", "get_passenger_summary", "get_pnr_summary"}

TrainReports ==
    {"get_expected_arrival_at_station", "get_current_train_position", "get_train_route",
     "get_upcoming_stations", "get_train_summary"}

\* the passengers of the records that are there
SummaryChoices ==
    {Passenger(0, cs, cs, <<"G", "N", "W", "L", "/", "1", "2">>, bc) :
        cs \in {<<"C", "N", "F">>, <<"W", "L">>}, bc \in {None, Str(<<"L", "B">>)}}

\* no response, a response without data, a response with data
PnrRecords ==
    {None}
        \cup {[kind |-> "PNRResponse", status |-> st, data |-> None] : st \in BOOLEAN}
        \cup {[kind |-> "PNRResponse", status |-> TRUE,
               data |-> SummaryPNRData(chart, chart, cancelled,
                            [i \in DOMAIN g |-> [g[i] EXCEPT !.Number = i]])] :
                 chart \in BOOLEAN, cancelled \in BOOLEAN,
                 g \in UNION {[1..n -> SummaryChoices] : n \in 0..1}}

TrainRecords ==
    {None} \cup {PositionData(d, "T", None, None) : d \in {0 - 5, 0, 67}}

LegacyRecords ==
    {None, RailwaysAPIResponse(FALSE, None), RailwaysAPIResponse(TRUE, None),
     RailwaysAPIResponse(TRUE, LegacyPNRData)}

InitMissing ==
    /\ today = BaseOrd
    /\ ToolsIdle
    /\ \/ \E f \in NewPnrReports, r \in PnrRecords : fn_args = [fn |-> f, pnr_status |-> r]
       \/ \E f \in TrainReports, r \in TrainRecords :
             fn_args = [fn |-> f, train_status |-> r, station_code |-> KB,
                        include_non_stops |-> FALSE, limit |-> 5]
       \/ \E f \in LegacyReports, n \in 0..1 :
             \E g \in [1..n -> LegacyChoices(f)] :
                 fn_args = [fn |-> f, passengers |-> LegacyList(g)]
       \/ \E r \in LegacyRecords : fn_args = [fn |-> "getJourneyOverview", pnr_info |-> r]
    /\ fn_ret = NotCalled

Apply_get_journey_overview ==
    /\ fn_args.fn = "get_journey_overview"
    /\ fn_ret = NotCalled
    /\ fn_ret' = Value(get_journey_overview(fn_args.pnr_status))
    /\ UNCHANGED <<toolVars, fn_args>>

Apply_get_passenger_summary ==
    /\ fn_args.fn = "get_passenger_summary"
    /\ fn_ret = NotCalled
    /\ fn_ret' = Value(get_passenger_summary(fn_args.pnr_status))
    /\ UNCHANGED <<toolVars, fn_args>>

Apply_get_pnr_summary ==
    /\ fn_args.fn = "get_pnr_summary"
    /\ fn_ret = NotCalled
    /\ fn_ret' = Value(get_pnr_summary(fn_args.pnr_status))
    /\ UNCHANGED <<toolVars, fn_args>>

Apply_getJourneyOverview ==
    /\ fn_args.fn = "getJourneyOverview"
    /\ fn_ret = NotCalled
    /\ fn_ret' = Value(getJourneyOverview(fn_args.pnr_info))
    /\ UNCHANGED <<toolVars, fn_args>>

NextMissing ==
    \/ Apply_check_confirm_status
    \/ Apply_get_coach_and_berth
    \/ Apply_get_waitlist_position
    \/ Apply_get_journey_overview
    \/ Apply_get_passenger_summary
    \/ Apply_get_pnr_summary
    \/ Apply_get_expected_arrival_at_station
    \/ Apply_get_current_train_position
    \/ Apply_get_train_route
    \/ Apply_get_upcoming_stations
    \/ Apply_get_train_summary
    \/ Apply_checkConfirmStatus
    \/ Apply_getCoachAndBerth
    \/ Apply_getWaitListPosition
    \/ Apply_getJourneyOverview

SpecMissing == InitMissing /\ [][NextMissing]_vars

\* the fixed texts of the reports for a record that is not there or empty
FallbackTexts ==
    {"PNR data not available.", "No passenger information available.",
     "Failed to receive API response.", "Confirm status not available.",
     "Coach & Birth not available", "Unable to get waitlist position.",
     "Failed to receive source API response", "Problem in API.",
     "No route information available", "No upcoming stations available"}

\* the record given is None or has no data
RecordMissing ==
    \/ fn_args.fn \in NewPnrReports
          /\ (fn_args.pnr_status = None \/ fn_args.pnr_status.data = None)
    \/ fn_args.fn \in TrainReports /\ fn_args.train_status = None
    \/ fn_args.fn = "getJourneyOverview"
          /\ (fn_args.pnr_info = None \/ fn_args.pnr_info.data = None)

\* a passenger report is given no passenger
NoPassengers ==
    \/ fn_args.fn \in PassengerReports \cup {"get_passenger_summary"}
          /\ fn_args.pnr_status # None
          /\ fn_args.pnr_status.data # None
          /\ fn_args.pnr_status.data.PassengerStatus = <<>>
    \/ fn_args.fn \in LegacyReports /\ fn_args.passengers = <<>>

\* C23: every report function given None, a record without data or, for the
\* passenger reports, an empty passenger list returns one of the fixed
\* fallback texts and does not raise.
C23_MissingRecordFallback ==
    (fn_ret # NotCalled /\ (RecordMissing \/ NoPassengers)) =>
        /\ fn_ret # Failure("AttributeError")
        /\ fn_ret # Failure("IndexError")
        /\ Len(fn_ret.val) = 1
        /\ fn_ret.val[1].values = <<>>
        /\ fn_ret.val[1].msg \in FallbackTexts

----------------------------------------------------------------------------
(* The run the composite tools ask for *)

\* the source date of the record the PNR fetch of this invocation returned
SourceDateAt(j) == strptime_dmy(log[j].arg.data.SourceDoj)

\* C26: whenever a composite tool asks the train-status collaborator for a
\* run and the source date of the PNR is known, the run asked for, which is
\* the one that started start_day days before the day of the request, is the
\* run that started on the source date; no train report is rendered for a PNR
\* whose source date is after the day of the request.
C26_LiveStatusOfThePnrRun ==
    tool \in CompositeTools =>
        /\ \A i \in Indices("http", "train_get") :
              \A j \in 1..(i - 1) :
                 (PnrRecordAt(j) /\ SourceDateAt(j) # None) =>
                     log[i].at - log[i].arg.start_day = SourceDateAt(j).ord
        /\ Renders(TrainDerivations) =>
              \A i \in Indices("http", "train_get") :
                 \A j \in 1..(i - 1) :
                    (PnrRecordAt(j) /\ SourceDateAt(j) # None) => SourceDateAt(j).ord <= log[i].at

\* C27: an invocation of get_full_journey_status that got a record with a
\* train number issues no train-status fetch when the source date is after
\* the day of the call, and its report then ends with the 'Train has not
\* started yet' part that gives the days until departure; in every other case
\* it issues exactly one train-status fetch; the report starts with the PNR
\* summary of the record whatever the answer to that fetch.
C27_FullJourneyFetchesStartedRuns ==
    (tool = "get_full_journey_status" /\ pc \in {"await_train", "done"}
        /\ locals.train_no # None) =>
        LET d == locals.train_source_date
            called == log[1].at
        IN  /\ (d # None /\ d.ord > called) =>
                  /\ Count("call", "fetch_new_train_status") = 0
                  /\ Count("http", "train_get") = 0
                  /\ pc = "done"
                  /\ result[Len(result)] =
                        Part("Train has not started yet", <<d, d.ord - called>>)
            /\ ~(d # None /\ d.ord > called) =>
                  /\ Count("call", "fetch_new_train_status") = 1
                  /\ Count("http", "train_get") = 1
            /\ result # <<>>
            /\ result[1] = Part("get_pnr_summary", <<locals.pnr_response>>)

\* the train of the PNR leaves its source in two days
C27_Witness ==
    /\ tool = "get_full_journey_status"
    /\ pc = "done"
    /\ result # <<>>
    /\ result[Len(result)].msg = "Train has not started yet"
    /\ result[Len(result)].values[2] = 2
    /\ Count("http", "train_get") = 0

----------------------------------------------------------------------------
(* Invocations that overlap.  Every variable of the server holds one value *)
(* per invocation; an invocation runs from its call to its first await in  *)
(* one step and from the answer to its end in another, and the steps of    *)
(* different invocations interleave in any order.                          *)

\* how many invocations are in flight together
MaxCalls == 2

Calls == 1..MaxCalls

ConcurrentTools == {"get_live_train_status"} \cup CompositeTools

\* a PNR of a train that left today, and one of a train that leaves tomorrow
ConcurrentUpstreams ==
    {PnrUpstream("ok", TRUE, "ok", PnrJson(TRUE, TRUE, PNRData("12618", BaseDate))),
     PnrUpstream("ok", TRUE, "ok", PnrJson(TRUE, TRUE, PNRData("17606", DateStr(1, 3, BaseDate.y))))}

ConcurrentReplies == {TrainReply("json", TRUE, TRUE), TrainReply("request_error", FALSE, FALSE)}

ConcurrentStation == CHOOSE c \in StationArgs : TRUE

\* the handler of tool t from its call to its first await or its end
Begin(t, a, up, now) ==
    CASE t \in TrainTools -> train_tool(t, a.train_number, a.start_day)
      [] t = "get_train_status_using_pnr" -> get_train_status_using_pnr(a.pnr_no, up, now)
      [] t = "get_train_arrival_using_pnr" ->
            get_train_arrival_using_pnr(a.pnr_no, a.station_code, up, now)
      [] t = "get_full_journey_status" -> get_full_journey_status(a.pnr_no, up, now)

\* ... and from the answer to its train-status GET to its end
Finish(t, a, loc, res, reply, now) ==
    CASE t \in TrainTools -> train_tool_resume(t, a, reply, now)
      [] t = "get_train_status_using_pnr" -> get_train_status_using_pnr_resume(a, loc, reply, now)
      [] t = "get_train_arrival_using_pnr" -> get_train_arrival_using_pnr_resume(a, loc, reply, now)
      [] t = "get_full_journey_status" -> get_full_journey_status_resume(res, loc, reply, now)

\* one frame for all invocations, as a module-level variable would be
SharedFrame(frames, i, frame) == [j \in DOMAIN frames |-> frame]

\* the local variables of a handler live in the frame of its own call
OwnFrame(frames, i, frame) == [frames EXCEPT ![i] = frame]

\* the events logged so far by all invocations: the time of the next event
RECURSIVE Logged(_)
Logged(n) == IF n = 0 THEN 0 ELSE Len(log[n]) + Logged(n - 1)

InitConcurrent ==
    /\ today = BaseOrd
    /\ pc = [i \in Calls |-> "idle"]
    /\ tool = [i \in Calls |-> ""]
    /\ args = [i \in Calls |-> NoArgs]
    /\ locals = [i \in Calls |-> NoLocals]
    /\ result = [i \in Calls |-> <<>>]
    /\ log = [i \in Calls |-> <<>>]
    /\ InitFn

ConcurrentCall ==
    \E i \in Calls, t \in ConcurrentTools, up \in ConcurrentUpstreams :
        LET a == IF t \in TrainTools
                 THEN [NoArgs EXCEPT !.train_number = "12618", !.start_day = 0]
                 ELSE IF t = "get_train_arrival_using_pnr"
                 THEN [NoArgs EXCEPT !.pnr_no = ValidPnr, !.station_code = ConcurrentStation]
                 ELSE [NoArgs EXCEPT !.pnr_no = ValidPnr]
            o == Begin(t, a, up, today)
        IN  /\ pc[i] = "idle"
            /\ pc' = [pc EXCEPT ![i] = o.pc]
            /\ tool' = [tool EXCEPT ![i] = t]
            /\ args' = [args EXCEPT ![i] = a]
            /\ locals' = OwnFrame(locals, i, o.locals)
            /\ result' = [result EXCEPT ![i] = o.result]
            /\ log' = [log EXCEPT ![i] = Stamp(o.log, Logged(MaxCalls))]
            /\ UNCHANGED <<today, fnVars>>

ConcurrentResume ==
    \E i \in Calls, reply \in ConcurrentReplies :
        LET o == Finish(tool[i], args[i], locals[i], result[i], reply, today)
        IN  /\ pc[i] = "await_train"
            /\ pc' = [pc EXCEPT ![i] = o.pc]
            /\ locals' = OwnFrame(locals, i, o.locals)
            /\ result' = [result EXCEPT ![i] = o.result]
            /\ log' = [log EXCEPT ![i] = @ \o Stamp(<<ReplyEv("train_get", reply)>> \o o.log,
                                                    Logged(MaxCalls))]
            /\ UNCHANGED <<today, tool, args, fnVars>>

NextConcurrent == ConcurrentCall \/ ConcurrentResume

SpecConcurrent == InitConcurrent /\ [][NextConcurrent]_vars

\* the events of a log without their times
Unstamped(events) ==
    [k \in DOMAIN events |-> [ev |-> events[k].ev, what |-> events[k].what, arg |-> events[k].arg]]

\* the answers the collaborators gave to invocation i
PnrAnswers(i) == {k \in DOMAIN log[i] : log[i][k].ev = "reply" /\ log[i][k].what = "pnr_post"}

TrainAnswers(i) == {k \in DOMAIN log[i] : log[i][k].ev = "reply" /\ log[i][k].what = "train_get"}

\* invocation i run on its own against the answers it was given
Alone(i) ==
    LET up == PnrUpstream("ok", TRUE, "ok", log[i][CHOOSE k \in PnrAnswers(i) : TRUE].arg)
        first == Begin(tool[i], args[i], up, today)
    IN  IF TrainAnswers(i) = {} THEN first
        ELSE LET reply == log[i][CHOOSE k \in TrainAnswers(i) : TRUE].arg
                 second == Finish(tool[i], args[i], first.locals, first.result, reply, today)
             IN  [second EXCEPT !.log = first.log \o <<ReplyEv("train_get", reply)>> \o second.log]

====
